---- MODULE Spec2Model ----
(***************************************************************************)
(* git-squash: the squash planner (GitSquashTool.prepare_squash_plan and   *)
(* its helpers), the plan table of GitSquashCache, and the squash executor *)
(* (GitSquashTool.execute_squash_plan) acting on a git repository.         *)
(*                                                                         *)
(* Commit hashes are small integers, an author timestamp is an integer     *)
(* whose calendar day is DayOf, a commit message is a sequence of lines    *)
(* (strings), so that its length is the length len() measures once the     *)
(* lines are joined with newlines.  History is a first-parent chain below  *)
(* the working branch; merge commits appear on the base branch only.       *)
(***************************************************************************)
EXTENDS Integers, Sequences, FiniteSets, TLC

(* ------------------------------ bounds --------------------------------- *)
MaxCommits == 3
MaxTime == 2
MaxPrepare == 2
MaxExec == 2
MaxProcs == 2
MaxClock == 2
MaxWrites == 2
MaxKeyCommits == 4
MaxAmend == 1
MaxLine == 5
MaxAttempts == 3
MaxBodyLines == 3

(* ------------------------- configuration ------------------------------- *)
\* GitSquashConfig as constructed for the model: a valid configuration
\* (all limits positive, retry attempts within 1..10).
total_message_limit == 60
subject_line_limit == 50
max_retry_attempts == 2
MAX_RECURSION_DEPTH == 10
\* GitSquashCache(ttl_days=1)
ttl_days == 1

NoDate == 0
NoCommit == 0
NoPart == 0

VARIABLES
    commits,      \* object store: hash -> commit object
    refs,         \* branch name -> hash (NoCommit: the branch does not exist)
    head,         \* the branch that is checked out
    planCache,    \* GitSquashCache._plan_cache: key -> serialized plan
    req,          \* arguments of the last prepare_squash_plan call
    fetched,      \* what get_commits_by_date returned to that call (log order)
    plan,         \* the plan that call returned (items = <<>> before any call)
    planErr,      \* "none", or the error that call raised
    planSrc,      \* how the plan was obtained: "none", "cache", "fresh", or
                  \* "regenerated" after a cached plan was discarded
    nPrepare,     \* number of prepare_squash_plan calls so far
    backendUp,    \* whether the generation backend answered during that call
    pc,           \* position of execute_squash_plan
    xplan,        \* the plan being executed
    xtarget,      \* target_branch argument
    startHead,    \* hash HEAD resolved to when execute_squash_plan was entered
    base_head,    \* local base_head of execute_squash_plan
    current_parent, \* local current_parent
    created,      \* the new commits made by the running/last execution
    firstParent,  \* parent given to the first new commit of that execution
    nExec,        \* number of execute_squash_plan calls so far
    sessions,     \* the completed executions: arguments planned with, merged or not
    clock,        \* datetime.now(), in days
    files,        \* the cache directory: summary_cache.json and plan_cache.json
    temps,        \* the temporary file of each process in the cache directory
    mem,          \* per process: _summary_cache and _plan_cache of its GitSquashCache
    cpc,          \* per process: where it is in a cache call, and which call it is
    got,          \* result of the get_summary/get_plan call that just returned
    mine,         \* per process: the entry its instance last stored with set_summary
    born,         \* per process: the durable summary entry when its instance was made
    durable,      \* the entry of the last set_summary that reached the summary file
    squashed,     \* hashes passed to invalidate_plan and not planned again since
    nWrites,      \* number of set_summary/set_plan/invalidate_plan calls so far
    cold,         \* per process: the table files its constructor could not use
    keyArgs,      \* the two argument lists _generate_summary_key was called with
    keyOut,       \* the two keys it returned
    cli,          \* the run of the command line: position, options, answer, exit code
    cfg,          \* the last GitSquashConfig call: receiver, arguments, outcome
    fmt,          \* the last format_commit_message call: message, configuration, results
    retry,        \* _generate_summary_with_retry: position, attempt, summary, backend calls,
                  \* the summary cache entry of the batch and the set_summary calls
    proc,         \* the last direct _process_commits call: arguments and outcomes
    trunc,        \* the last hard truncation: the summary and the truncated message
    fault         \* the reference lookup of the running execution that raised, if any

vars == <<commits, refs, head, planCache, req, fetched, plan, planErr, planSrc,
          nPrepare, backendUp, pc, xplan, xtarget, startHead, base_head, current_parent,
          created, firstParent, nExec, sessions, clock, files, temps, mem, cpc,
          got, mine, born, durable, squashed, nWrites, cold, keyArgs, keyOut, cli, cfg,
          fmt, retry, proc, trunc, fault>>

repoVars == <<commits, refs, head>>
auxVars == <<keyArgs, keyOut, cli, cfg, fmt, retry, proc, trunc, fault>>
cacheVars == <<clock, files, temps, mem, cpc, got, mine, born, durable, squashed, nWrites,
               cold>>
planVars == <<planCache, req, fetched, plan, planErr, planSrc, nPrepare, backendUp>>
execVars == <<pc, xplan, xtarget, startHead, base_head, current_parent,
              created, firstParent, nExec, sessions>>

(* ------------------------------ helpers -------------------------------- *)
Range(s) == { s[i] : i \in 1..Len(s) }

RECURSIVE Concat(_)
Concat(ss) == IF ss = <<>> THEN <<>> ELSE Head(ss) \o Concat(Tail(ss))

RECURSIVE SumLens(_)
SumLens(lines) == IF lines = <<>> THEN 0 ELSE Len(Head(lines)) + SumLens(Tail(lines))

\* len('\n'.join(lines))
JoinLen(lines) == IF lines = <<>> THEN 0 ELSE SumLens(lines) + Len(lines) - 1

\* len(summary) for a message kept as its lines
MsgLen(m) == JoinLen(m)

Days == 1..((MaxTime \div 2) + 1)

\* date_obj.strftime('%Y-%m-%d'): two timestamps per calendar day
DayOf(dt) == (dt \div 2) + 1

(* --------------------------- the repository ---------------------------- *)
BaseBranch == "main"
WorkBranch == "dev"
BackupBranch == "backup/pre-squash"
Targets == <<"feature/squash-1", "feature/squash-2", "feature/squash-3">>
Branches == {BaseBranch, WorkBranch, BackupBranch} \cup Range(Targets)

Hashes == DOMAIN commits

\* rev-parse <c>^ : the first parent, NoCommit when rev-parse fails
ParentOf(c) == IF commits[c].parents = <<>> THEN NoCommit ELSE commits[c].parents[1]

RECURSIVE Ancestors(_)
\* every commit reachable from c, c included
Ancestors(c) ==
    IF c = NoCommit THEN {}
    ELSE {c} \cup UNION { Ancestors(p) : p \in Range(commits[c].parents) }

\* git merge-base --is-ancestor a b
IsAncestor(a, b) == a \in Ancestors(b)

\* rev-parse <c>^{tree}
get_tree_hash(c) == commits[c].tree

RECURSIVE LogWalk(_, _)
\* the first-parent chain from c down to, and excluding, the first commit in stop
LogWalk(c, stop) ==
    IF c = NoCommit \/ c \in stop THEN <<>>
    ELSE LogWalk(ParentOf(c), stop) \o <<c>>

\* git log --reverse <base>..HEAD
GitLog(baseRef, headRef) == LogWalk(refs[headRef], Ancestors(refs[baseRef]))

(* ------------------------------ messages ------------------------------- *)
ShortMsg == <<"Add squash planner">>
LongMsg == <<"Rework planner and executor", "",
             "- split batches whose summary is too long",
             "- replay each group on the base branch">>
\* what the summary generation backend may answer to one call
Msgs == {ShortMsg, LongMsg}

Marker == "- ...additional changes"

DateStr(d) == <<"2025-01-01", "2025-01-02", "2025-01-03", "2025-01-04">>[d]
NumStr(n) == <<"1", "2", "3", "4", "5", "6", "7", "8", "9">>[n]

\* the label of a batch: one date, or "<lo> to <hi>" for a combined batch
Label(lo, hi) == [lo |-> lo, hi |-> hi]
LabelStr(l) == IF l.lo = l.hi THEN DateStr(l.lo)
               ELSE DateStr(l.lo) \o " to " \o DateStr(l.hi)

(* ------------------------------ the plan -------------------------------- *)
SquashPlanItem(date, cs, summary, part) ==
    [date |-> date, commits |-> cs, summary |-> summary, part |-> part]

SquashPlan(items, total) == [items |-> items, total_original_commits |-> total]

NoPlan == SquashPlan(<<>>, 0)

\* mutant: the tree of the first commit of the item
end_hash_First(item) == item.commits[1]

\* SquashPlanItem.end_hash
end_hash(item) == item.commits[Len(item.commits)]

\* mutant: the author of the last commit of the item
author_info_Last(item) ==
    LET last == commits[item.commits[Len(item.commits)]]
    IN  <<last.author_name, last.author_email, last.date>>

\* SquashPlanItem.author_info: name, email and date of the first commit
author_info(item) ==
    LET first == commits[item.commits[1]]
    IN  <<first.author_name, first.author_email, first.date>>

(* --------------------- summary generation with retry -------------------- *)
RECURSIVE RetryFrom(_, _)
\* the loop of _generate_summary_with_retry from one attempt on; resp[a] is
\* what the backend answers at attempt a
RetryFrom(resp, attempt) ==
    IF MsgLen(resp[attempt]) <= total_message_limit THEN resp[attempt]
    ELSE IF attempt = max_retry_attempts THEN resp[attempt]
    ELSE RetryFrom(resp, attempt + 1)

_generate_summary_with_retry(resp) == RetryFrom(resp, 1)

\* every summary _generate_summary_with_retry can return for one batch
RetryResults ==
    { _generate_summary_with_retry(resp) : resp \in [1..max_retry_attempts -> Msgs] }

(* --------------------------- fallback summary --------------------------- *)
\* the subjects of the commits of the working branch, by position on it
Subjects == <<"Work on the planner",
              "Add the squash planner and the executor that replays groups",
              "Fix the parent of the first commit",
              "Work on the executor">>

\* DiffAnalyzer.categorize_commits on one subject: the first keyword list
\* that has a word occurring in the lowercased subject
Category(subject) ==
    IF subject = "Add the squash planner and the executor that replays groups"
    THEN "features"
    ELSE IF subject = "Fix the parent of the first commit" THEN "fixes"
    ELSE "other"

\* str.lower() on the subjects in use
Lower(subject) ==
    IF subject = "Add the squash planner and the executor that replays groups"
    THEN "add the squash planner and the executor that replays groups"
    ELSE IF subject = "Fix the parent of the first commit"
    THEN "fix the parent of the first commit"
    ELSE IF subject = "Work on the planner" THEN "work on the planner"
    ELSE "work on the executor"

\* the subjects of one category among the commits of a batch, in batch order
Categorized(cs, cat) ==
    LET hit == SelectSeq(cs, LAMBDA c : Category(commits[c].message[1]) = cat)
    IN  [i \in 1..Len(hit) |-> commits[hit[i]].message[1]]

\* ClaudeClient._create_fallback_summary, as the lines of the message.  None
\* of the subjects in use holds a test or performance keyword or a keyword
\* of the special conditions, so those body lines are never added; no
\* subject built here reaches subject_line_limit.
_create_fallback_summary(date, cs) ==
    LET features == Categorized(cs, "features")
        fixes == Categorized(cs, "fixes")
        parts == (IF features # <<>> THEN <<NumStr(Len(features)) \o " features">> ELSE <<>>)
                 \o (IF fixes # <<>> THEN <<NumStr(Len(fixes)) \o " fixes">> ELSE <<>>)
        subject == IF Len(parts) = 2 THEN "Add " \o parts[1] \o ", " \o parts[2]
                   ELSE IF Len(parts) = 1 THEN "Add " \o parts[1]
                   ELSE "Update implementation for " \o LabelStr(date)
        body == (IF features # <<>> THEN <<"- feature: " \o Lower(features[1])>> ELSE <<>>)
                \o (IF fixes # <<>> THEN <<"- fix: " \o Lower(fixes[1])>> ELSE <<>>)
    IN  IF body # <<>> THEN <<subject, "">> \o body ELSE <<subject>>

\* every summary _generate_summary_with_retry can return for one batch: when
\* the backend raises on every call generate_summary answers the fallback
\* at every attempt
Summaries(date, cs, up) ==
    IF up THEN RetryResults
    ELSE { _generate_summary_with_retry(
               [a \in 1..max_retry_attempts |-> _create_fallback_summary(date, cs)]) }

(* ------------------------------ splitting ------------------------------- *)
RECURSIVE TruncLoop(_, _, _)
TruncLoop(truncated, char_count, rest) ==
    IF rest = <<>> THEN truncated
    ELSE IF char_count + Len(Head(rest)) + 1 > total_message_limit - 20
         THEN Append(truncated, Marker)
         ELSE TruncLoop(Append(truncated, Head(rest)),
                        char_count + Len(Head(rest)) + 1, Tail(rest))

\* the hard truncation of _split_day_commits (lines 293-305)
HardTruncate(lines) ==
    LET truncated == <<lines[1], "">>
    IN  TruncLoop(truncated, JoinLen(truncated),
                  IF Len(lines) > 2 THEN SubSeq(lines, 3, Len(lines)) ELSE <<>>)

Ok(items) == [err |-> "none", items |-> items]
Raised(e) == [err |-> e, items |-> <<>>]

\* _split_day_commits: every outcome it can have for one batch.  With two
\* or more commits it evaluates `depth + 1`, a name that is neither a
\* parameter nor a local nor a global of tool.py, before the first recursive
\* call: Python raises NameError and nothing is returned.
_split_day_commits(date, cs, up) ==
    IF Len(cs) = 1
    THEN { Ok(<<SquashPlanItem(date, cs,
                    IF MsgLen(s) > total_message_limit THEN HardTruncate(s) ELSE s,
                    NoPart)>>) : s \in Summaries(date, cs, up) }
    ELSE { Raised("NameError") }

\* mutant: no bound on the recursion depth
_process_commits_NoDepthBound(date, cs, depth, up) ==
    IF Len(cs) <= 1
    THEN { Ok(<<SquashPlanItem(date, cs, s, NoPart)>>) : s \in Summaries(date, cs, up) }
    ELSE { Ok(<<SquashPlanItem(date, cs, s, NoPart)>>) :
               s \in { r \in Summaries(date, cs, up) : MsgLen(r) <= total_message_limit } }
         \cup UNION { _split_day_commits(date, cs, up) :
               s \in { r \in Summaries(date, cs, up) : MsgLen(r) > total_message_limit } }

\* _process_commits: every outcome it can have for one batch
_process_commits(date, cs, depth, up) ==
    IF depth > MAX_RECURSION_DEPTH
    THEN { Ok(<<SquashPlanItem(date, cs,
                   <<"Update " \o LabelStr(date) \o " (" \o NumStr(Len(cs)) \o " commits)">>,
                   NoPart)>>) }
    ELSE IF Len(cs) <= 1
    THEN { Ok(<<SquashPlanItem(date, cs, s, NoPart)>>) : s \in Summaries(date, cs, up) }
    ELSE { Ok(<<SquashPlanItem(date, cs, s, NoPart)>>) :
               s \in { r \in Summaries(date, cs, up) : MsgLen(r) <= total_message_limit } }
         \cup UNION { _split_day_commits(date, cs, up) :
               s \in { r \in Summaries(date, cs, up) : MsgLen(r) > total_message_limit } }

(* ------------------------- get_commits_by_date -------------------------- *)
\* the date key of a commit: the calendar day of its author date
DateKey(c) == DayOf(commits[c].date)

RECURSIVE DateKeys(_)
\* the keys of commits_by_date in insertion order (first appearance in the log)
DateKeys(log) ==
    IF log = <<>> THEN <<>>
    ELSE LET d == DateKey(Head(log))
         IN  <<d>> \o SelectSeq(DateKeys(Tail(log)), LAMBDA x : x # d)

\* commits_by_date[d]: the commits of one date, in log order
Group(log, d) == SelectSeq(log, LAMBDA c : DateKey(c) = d)

\* mutant: the bounds taken as exclusive
include_date_Exclusive(d, start_date, end_date) ==
    /\ ~(start_date # NoDate /\ d <= start_date)
    /\ ~(end_date # NoDate /\ d >= end_date)

\* the date filter of prepare_squash_plan (lines 42-47)
include_date(d, start_date, end_date) ==
    /\ ~(start_date # NoDate /\ d < start_date)
    /\ ~(end_date # NoDate /\ d > end_date)

\* all_commits: the groups concatenated in dictionary order (lines 59-61)
AllCommits(keys, log) == Concat([i \in 1..Len(keys) |-> Group(log, keys[i])])

RECURSIVE InsertByTime(_, _)
InsertByTime(sorted, c) ==
    IF sorted = <<>> THEN <<c>>
    ELSE IF commits[Head(sorted)].date <= commits[c].date
         THEN <<Head(sorted)>> \o InsertByTime(Tail(sorted), c)
         ELSE <<c>> \o sorted

RECURSIVE SortByTime(_)
\* all_commits.sort(key=lambda c: c.datetime): a stable sort
SortByTime(cs) ==
    IF cs = <<>> THEN <<>>
    ELSE InsertByTime(SortByTime(SubSeq(cs, 1, Len(cs) - 1)), cs[Len(cs)])

RECURSIVE SortedDates_Descending(_)
\* mutant: the dates taken newest first
SortedDates_Descending(ds) ==
    IF ds = {} THEN <<>>
    ELSE LET m == CHOOSE x \in ds : \A y \in ds : x >= y
         IN  <<m>> \o SortedDates_Descending(ds \ {m})

RECURSIVE SortedDates(_)
\* sorted(commits_by_date.keys())
SortedDates(ds) ==
    IF ds = {} THEN <<>>
    ELSE LET m == CHOOSE x \in ds : \A y \in ds : x <= y
         IN  <<m>> \o SortedDates(ds \ {m})

(* ------------------------------ plan cache ------------------------------ *)
\* _hash_config(config): one configuration is in use throughout
ConfigHash == "cfg"

\* _generate_plan_key: the digest of the joined components, injective on them
_generate_plan_key(start_date, end_date, commit_count, first_hash, last_hash) ==
    <<"plan", start_date, end_date, commit_count, first_hash, last_hash, ConfigHash>>

PlanKeyOf(start_date, end_date, all_commits) ==
    _generate_plan_key(start_date, end_date, Len(all_commits),
                       all_commits[1], all_commits[Len(all_commits)])

\* the value set_plan stores (lines 444-456)
SerializePlan(p) ==
    [total_original_commits |-> p.total_original_commits,
     items |-> [i \in 1..Len(p.items) |->
                  [date |-> p.items[i].date,
                   commit_count |-> Len(p.items[i].commits),
                   summary |-> p.items[i].summary,
                   part |-> p.items[i].part,
                   commit_hashes |-> p.items[i].commits]]]

\* position of h in the cached hash list (hash_order), past the end if absent
HashOrder(hashes, h) ==
    IF h \in Range(hashes)
    THEN CHOOSE i \in 1..Len(hashes) : hashes[i] = h /\ \A j \in 1..(i-1) : hashes[j] # h
    ELSE Len(hashes) + 1

RECURSIVE InsertByOrder(_, _, _)
InsertByOrder(sorted, c, hashes) ==
    IF sorted = <<>> THEN <<c>>
    ELSE IF HashOrder(hashes, Head(sorted)) <= HashOrder(hashes, c)
         THEN <<Head(sorted)>> \o InsertByOrder(Tail(sorted), c, hashes)
         ELSE <<c>> \o sorted

RECURSIVE SortByOrder(_, _)
SortByOrder(cs, hashes) ==
    IF cs = <<>> THEN <<>>
    ELSE InsertByOrder(SortByOrder(SubSeq(cs, 1, Len(cs) - 1), hashes), cs[Len(cs)], hashes)

\* the commits _reconstruct_plan_from_cache finds for one cached item
ItemCommits(item_data, flat) ==
    SelectSeq(flat, LAMBDA c : c \in Range(item_data.commit_hashes))

\* mutant: a cached item is rebuilt from the commits found, however many
_reconstruct_plan_from_cache_NoCountCheck(cached_data, flat) ==
    [ok |-> TRUE,
     plan |-> SquashPlan(
         [i \in 1..Len(cached_data.items) |->
             SquashPlanItem(cached_data.items[i].date,
                            SortByOrder(ItemCommits(cached_data.items[i], flat),
                                        cached_data.items[i].commit_hashes),
                            cached_data.items[i].summary,
                            cached_data.items[i].part)],
         cached_data.total_original_commits)]

\* _reconstruct_plan_from_cache; flat is commits_by_date walked in dictionary order
_reconstruct_plan_from_cache(cached_data, flat) ==
    IF \A i \in 1..Len(cached_data.items) :
           Len(ItemCommits(cached_data.items[i], flat)) = cached_data.items[i].commit_count
    THEN [ok |-> TRUE,
          plan |-> SquashPlan(
              [i \in 1..Len(cached_data.items) |->
                  SquashPlanItem(cached_data.items[i].date,
                                 SortByOrder(ItemCommits(cached_data.items[i], flat),
                                             cached_data.items[i].commit_hashes),
                                 cached_data.items[i].summary,
                                 cached_data.items[i].part)],
              cached_data.total_original_commits)]
    ELSE [ok |-> FALSE, plan |-> NoPlan]

(* --------------------------- prepare_squash_plan ------------------------ *)
\* the outcome of two steps run one after the other
Then(a, b) == IF a.err # "none" THEN a
              ELSE IF b.err # "none" THEN b
              ELSE Ok(a.items \o b.items)

RECURSIVE ProcessDays(_, _, _)
\* the loop over sorted(commits_by_date.keys()) (lines 100-107)
ProcessDays(dates, log, up) ==
    IF dates = <<>> THEN { Ok(<<>>) }
    ELSE { Then(a, b) :
             a \in _process_commits(Label(Head(dates), Head(dates)),
                                    Group(log, Head(dates)), 0, up),
             b \in ProcessDays(Tail(dates), log, up) }

PlanResult(err, p, src, cache) == [err |-> err, plan |-> p, src |-> src, cache |-> cache]

\* every outcome prepare_squash_plan can have on the fetched log
prepare_squash_plan(log, start_date, end_date, combine, cache, up) ==
    LET filtering == start_date # NoDate \/ end_date # NoDate
        keys == IF filtering
                THEN SelectSeq(DateKeys(log),
                               LAMBDA d : include_date(d, start_date, end_date))
                ELSE DateKeys(log)
    IN
    IF filtering /\ keys = <<>>
    THEN { PlanResult("InvalidDateRangeError", NoPlan, "none", cache) }
    ELSE IF keys = <<>>
    THEN { PlanResult("NoCommitsFoundError", NoPlan, "none", cache) }
    ELSE
    LET flat == AllCommits(keys, log)
        all_commits == IF combine THEN SortByTime(flat) ELSE flat
        key == PlanKeyOf(start_date, end_date, all_commits)
        rebuilt == IF key \in DOMAIN cache
                   THEN _reconstruct_plan_from_cache(cache[key], flat)
                   ELSE [ok |-> FALSE, plan |-> NoPlan]
        dates == SortedDates(Range(keys))
        built == IF combine
                 THEN _process_commits(Label(dates[1], dates[Len(dates)]), all_commits, 0, up)
                 ELSE ProcessDays(dates, log, up)
    IN
    IF rebuilt.ok
    THEN { PlanResult("none", rebuilt.plan, "cache", cache) }
    ELSE { IF o.err # "none"
           THEN PlanResult(o.err, NoPlan, "none", cache)
           ELSE LET p == SquashPlan(o.items, Len(flat))
                IN  PlanResult("none", p,
                               IF key \in DOMAIN cache THEN "regenerated" ELSE "fresh",
                               [k \in DOMAIN cache \cup {key} |->
                                   IF k = key THEN SerializePlan(p) ELSE cache[k]])
           : o \in built }

\* no execute_squash_plan call is running (a failed execution ends the session)
Quiescent == pc \in {"idle", "done"}

\* one call of prepare_squash_plan(start_date, end_date, combine, "main"),
\* during which the generation backend is reachable (up) or raises every time
PrepareCall(start_date, end_date, combine, up) ==
    LET log == GitLog(BaseBranch, head)
    IN  \E r \in prepare_squash_plan(log, start_date, end_date, combine, planCache, up) :
          /\ backendUp' = up
          /\ req' = [start_date |-> start_date, end_date |-> end_date,
                     combine |-> combine]
          /\ fetched' = log
          /\ plan' = r.plan
          /\ planErr' = r.err
          /\ planSrc' = r.src
          /\ planCache' = r.cache
          /\ nPrepare' = nPrepare + 1
          /\ UNCHANGED <<repoVars, execVars, cacheVars, auxVars>>

StartDates == {NoDate} \cup Days
EndDates == {NoDate} \cup Days

\* the planner called with any arguments, any number of times up to the bound
Prepare ==
    /\ Quiescent
    /\ nPrepare < MaxPrepare
    /\ \E start_date \in StartDates, end_date \in EndDates, combine \in BOOLEAN :
         PrepareCall(start_date, end_date, combine, TRUE)

\* the planner called on the whole branch, any number of times up to the bound
PrepareAll ==
    /\ Quiescent
    /\ nPrepare < MaxPrepare
    /\ \E combine \in BOOLEAN : PrepareCall(NoDate, NoDate, combine, TRUE)

\* the commits that replaced an amended one
Amended == { h \in Hashes : \E g \in Hashes : g < h /\ commits[g] = commits[h] }

\* git commit --amend on the work branch between two runs of the tool: the
\* tip is replaced by a commit with a new hash and the same parent, author
\* date and content
AmendTip ==
    /\ Quiescent
    /\ head = WorkBranch
    /\ refs[WorkBranch] > 2
    /\ Cardinality(Amended) < MaxAmend
    /\ commits' = Append(commits, commits[refs[WorkBranch]])
    /\ refs' = [refs EXCEPT ![WorkBranch] = Len(commits) + 1]
    /\ UNCHANGED <<head, planVars, execVars, cacheVars, auxVars>>

\* the planner called with any arguments while the backend is unreachable
PrepareDown ==
    /\ Quiescent
    /\ nPrepare < MaxPrepare
    /\ \E start_date \in StartDates, end_date \in EndDates, combine \in BOOLEAN :
         PrepareCall(start_date, end_date, combine, FALSE)

\* the arguments of the squash sessions: everything, everything combined, or
\* the commits of one day
SessionArgs ==
    { <<NoDate, NoDate, FALSE>>, <<NoDate, NoDate, TRUE>> }
    \cup { <<d, d, FALSE>> : d \in Days }

\* the planner called once at the start of a squash session
PrepareSession ==
    /\ Quiescent
    /\ nPrepare = nExec
    /\ nExec < MaxExec
    /\ \E a \in SessionArgs : PrepareCall(a[1], a[2], a[3], TRUE)

(* ------------------------------ invalidation ---------------------------- *)
\* the hashes of every commit of a plan (invalidate_plan, lines 484-487)
CommitsInPlan(p) == UNION { Range(p.items[i].commits) : i \in 1..Len(p.items) }

\* GitSquashCache.invalidate_plan on the plan table
invalidate_plan(cache, p) ==
    LET keys_to_remove ==
            { k \in DOMAIN cache :
                \E i \in 1..Len(cache[k].items) :
                    Range(cache[k].items[i].commit_hashes) \cap CommitsInPlan(p) # {} }
    IN  [k \in (DOMAIN cache) \ keys_to_remove |-> cache[k]]

(* --------------------------- execute_squash_plan ------------------------ *)
\* the hash `git commit-tree` returns: a commit object not yet in the store
NewHash == Cardinality(Hashes) + 1

\* mutant: the backup taken of the base branch
create_backup_branch_OfBase(rs, h) == [rs EXCEPT ![BackupBranch] = rs[BaseBranch]]

\* GitOperations.create_backup_branch: git branch -f <backup> HEAD
create_backup_branch(rs, h) == [rs EXCEPT ![BackupBranch] = rs[h]]

\* lines 128-130: the call is entered and the backup made
ExecBackup ==
    /\ Quiescent
    /\ nExec < MaxExec
    /\ planErr = "none" /\ plan # NoPlan
    /\ nPrepare = nExec + 1
    /\ \E t \in Range(SubSeq(Targets, 1, nExec + 1)) : xtarget' = t
    /\ xplan' = plan
    /\ startHead' = refs[head]
    /\ refs' = create_backup_branch(refs, head)
    /\ pc' = "backed_up"
    /\ created' = <<>>
    /\ firstParent' = NoCommit
    /\ current_parent' = NoCommit
    /\ base_head' = NoCommit
    /\ nExec' = nExec + 1
    /\ UNCHANGED <<commits, head, planVars, cacheVars, auxVars, sessions>>

\* mutant: the target branch is created but not checked out
ExecCreateBranch_NoCheckout ==
    /\ pc = "backed_up"
    /\ IF refs[xtarget] # NoCommit
       THEN /\ pc' = "aborted"
            /\ UNCHANGED <<refs, head>>
       ELSE /\ pc' = "branched"
            /\ refs' = [refs EXCEPT ![xtarget] = refs[BaseBranch]]
            /\ head' = head
    /\ UNCHANGED <<commits, planVars, cacheVars, auxVars, xplan, xtarget, startHead, base_head,
                   current_parent, created, firstParent, nExec, sessions>>

\* lines 132-133: git checkout -b <target> <base>; fails when the branch exists
ExecCreateBranch ==
    /\ pc = "backed_up"
    /\ IF refs[xtarget] # NoCommit
       THEN /\ pc' = "aborted"
            /\ UNCHANGED <<refs, head>>
       ELSE /\ pc' = "branched"
            /\ refs' = [refs EXCEPT ![xtarget] = refs[BaseBranch]]
            /\ head' = xtarget
    /\ UNCHANGED <<commits, planVars, cacheVars, auxVars, xplan, xtarget, startHead, base_head,
                   current_parent, created, firstParent, nExec, sessions>>

\* lines 135-156: reset the new branch to the parent of the first source commit
ExecResetToParent ==
    /\ pc = "branched"
    /\ LET first_commit == xplan.items[1].commits[1]
       IN  refs' = IF ParentOf(first_commit) # NoCommit
                   THEN [refs EXCEPT ![head] = ParentOf(first_commit)]
                   ELSE refs
    /\ pc' = "reset"
    /\ UNCHANGED <<commits, head, planVars, cacheVars, auxVars, xplan, xtarget, startHead, base_head,
                   current_parent, created, firstParent, nExec, sessions>>

\* lines 158-165: git rev-parse <base>
ExecResolveBase ==
    /\ pc = "reset"
    /\ base_head' = refs[BaseBranch]
    /\ pc' = "loop"
    /\ UNCHANGED <<repoVars, planVars, cacheVars, auxVars, xplan, xtarget, startHead,
                   current_parent, created, firstParent, nExec, sessions>>

\* mutant: the original parent kept without the ancestry check
FirstCommitParent_NoAncestryCheck(first_commit, base) ==
    IF ParentOf(first_commit) # NoCommit THEN ParentOf(first_commit) ELSE base

\* mutant: the base tip whatever the original parent is
FirstCommitParent_AlwaysBase(first_commit, base) == base

\* lines 176-208: the parent of the first new commit
FirstCommitParent(first_commit, base) ==
    IF ParentOf(first_commit) # NoCommit
    THEN IF IsAncestor(ParentOf(first_commit), base)
         THEN ParentOf(first_commit)
         ELSE base
    ELSE base

\* mutant: every new commit is given the parent of the first one
ItemParent_NoChain(cur, first_commit, base) == FirstCommitParent(first_commit, base)

\* lines 176-215: the parent of the next new commit
ItemParent(cur, first_commit, base) ==
    IF cur = NoCommit THEN FirstCommitParent(first_commit, base) ELSE cur

\* git commit-tree <tree> -p <parent> -m <message> with the author environment
create_commit(message, tree_hash, parent_hash, author_name, author_email, author_date) ==
    [parents |-> <<parent_hash>>, tree |-> tree_hash, message |-> message,
     author_name |-> author_name, author_email |-> author_email, date |-> author_date]

\* one iteration of the loop over plan.items (lines 169-225)
ExecItem ==
    /\ pc = "loop"
    /\ Len(created) < Len(xplan.items)
    /\ LET item == xplan.items[Len(created) + 1]
           tree_hash == get_tree_hash(end_hash(item))
           parent == ItemParent(current_parent, xplan.items[1].commits[1], base_head)
           new_commit == NewHash
       IN  /\ commits' = [h \in Hashes \cup {new_commit} |->
                             IF h = new_commit
                             THEN create_commit(item.summary, tree_hash, parent,
                                                author_info(item)[1], author_info(item)[2],
                                                author_info(item)[3])
                             ELSE commits[h]]
           /\ refs' = [refs EXCEPT ![head] = new_commit]
           /\ current_parent' = new_commit
           /\ created' = Append(created, new_commit)
           /\ firstParent' = IF current_parent = NoCommit THEN parent ELSE firstParent
    /\ UNCHANGED <<head, planVars, cacheVars, auxVars, pc, xplan, xtarget, startHead, base_head, nExec,
                   sessions>>

\* mutant: the cached plans are invalidated before the loop has ended
ExecInvalidate_Early ==
    /\ pc = "loop"
    /\ planCache' = invalidate_plan(planCache, xplan)
    /\ pc' = "done"
    /\ sessions' = Append(sessions, [req |-> req, merged |-> FALSE])
    /\ UNCHANGED <<repoVars, cacheVars, auxVars, req, fetched, plan, planErr, planSrc, nPrepare,
                   backendUp, xplan, xtarget, startHead, base_head, current_parent,
                   created, firstParent, nExec>>

\* lines 227-231: every item applied, invalidate the cached plans
ExecInvalidate ==
    /\ pc = "loop"
    /\ Len(created) = Len(xplan.items)
    /\ planCache' = invalidate_plan(planCache, xplan)
    /\ pc' = "done"
    /\ sessions' = Append(sessions, [req |-> req, merged |-> FALSE])
    /\ UNCHANGED <<repoVars, cacheVars, auxVars, req, fetched, plan, planErr, planSrc, nPrepare,
                   backendUp, xplan, xtarget, startHead, base_head, current_parent,
                   created, firstParent, nExec>>

\* a git command of the running execution fails: GitOperationError propagates
ExecGitFails ==
    /\ pc \in {"branched", "reset", "loop"}
    /\ pc' = "aborted"
    /\ UNCHANGED <<repoVars, planVars, cacheVars, auxVars, xplan, xtarget, startHead, base_head,
                   current_parent, created, firstParent, nExec, sessions>>

(* ------------------- execute_squash_plan, lookups raising --------------- *)
\* the planner is called once, on the whole branch
FirstPrepare == nPrepare = 0 /\ PrepareAll

\* lines 139-156: rev-parse <first_commit>^ or the reset raises; the except
\* clause logs a warning and the execution goes on, the branch not reset
ExecResetLookupFails ==
    /\ pc = "branched"
    /\ fault = "none"
    /\ fault' = "parent"
    /\ pc' = "reset"
    /\ UNCHANGED <<repoVars, planVars, cacheVars, xplan, xtarget, startHead, base_head,
                   current_parent, created, firstParent, nExec, sessions,
                   keyArgs, keyOut, cli, cfg, fmt, retry, proc, trunc>>

\* lines 159-165: rev-parse <base> raises; GitOperationError is raised
ExecResolveBaseFails ==
    /\ pc = "reset"
    /\ fault = "none"
    /\ fault' = "base"
    /\ pc' = "aborted"
    /\ UNCHANGED <<repoVars, planVars, cacheVars, xplan, xtarget, startHead, base_head,
                   current_parent, created, firstParent, nExec, sessions,
                   keyArgs, keyOut, cli, cfg, fmt, retry, proc, trunc>>

\* lines 169-225 for the first item when rev-parse <first_commit>^ or
\* merge-base raises (lines 176-208): the except clause takes the base tip as
\* the parent and the commit is created
ExecItemLookupFails ==
    /\ pc = "loop"
    /\ current_parent = NoCommit
    /\ Len(created) < Len(xplan.items)
    /\ fault = "none"
    /\ fault' = "parent"
    /\ LET item == xplan.items[Len(created) + 1]
           tree_hash == get_tree_hash(end_hash(item))
           parent == base_head
           new_commit == NewHash
       IN  /\ commits' = [h \in Hashes \cup {new_commit} |->
                             IF h = new_commit
                             THEN create_commit(item.summary, tree_hash, parent,
                                                author_info(item)[1], author_info(item)[2],
                                                author_info(item)[3])
                             ELSE commits[h]]
           /\ refs' = [refs EXCEPT ![head] = new_commit]
           /\ current_parent' = new_commit
           /\ created' = Append(created, new_commit)
           /\ firstParent' = parent
    /\ UNCHANGED <<head, planVars, cacheVars, pc, xplan, xtarget, startHead, base_head, nExec,
                   sessions, keyArgs, keyOut, cli, cfg, fmt, retry, proc, trunc>>

(* ------------------------------- the user ------------------------------- *)
\* git checkout main; git merge --no-ff <target>; git checkout dev
MergeIntoBase ==
    /\ pc = "done"
    /\ ~IsAncestor(refs[xtarget], refs[BaseBranch])
    /\ LET ours == refs[BaseBranch]
           theirs == refs[xtarget]
           m == NewHash
       IN  /\ commits' = [h \in Hashes \cup {m} |->
                             IF h = m
                             THEN [parents |-> <<ours, theirs>>,
                                   tree |-> IF IsAncestor(ours, theirs)
                                            THEN commits[theirs].tree ELSE m,
                                   message |-> <<"Merge">>,
                                   author_name |-> "user", author_email |-> "user@example.com",
                                   date |-> MaxTime]
                             ELSE commits[h]]
           /\ refs' = [refs EXCEPT ![BaseBranch] = m]
    /\ head' = WorkBranch
    /\ sessions' = [sessions EXCEPT ![Len(sessions)].merged = TRUE]
    /\ UNCHANGED <<planVars, cacheVars, auxVars, pc, xplan, xtarget, startHead, base_head, current_parent,
                   created, firstParent, nExec>>

\* git checkout dev
CheckoutWork ==
    /\ Quiescent
    /\ head # WorkBranch
    /\ head' = WorkBranch
    /\ UNCHANGED <<commits, refs, planVars, cacheVars, auxVars, execVars>>

(* ------------------------------ the cache store ------------------------- *)
\* the tool invocations sharing one cache directory
Procs == 1..MaxProcs

CACHE_VERSION == "1.0"

\* a file of the cache directory: absent, not parseable as JSON (half written
\* or corrupted), or a whole document
Absent == [exists |-> FALSE, whole |-> FALSE, version |-> CACHE_VERSION, entries |-> << >>]
Partial == [exists |-> TRUE, whole |-> FALSE, version |-> CACHE_VERSION, entries |-> << >>]
Whole(entries) ==
    [exists |-> TRUE, whole |-> TRUE, version |-> CACHE_VERSION, entries |-> entries]

\* a whole document written under another schema version
OtherVersion(entries) ==
    [exists |-> TRUE, whole |-> TRUE, version |-> "0.9", entries |-> entries]

\* CacheEntry as set_summary and set_plan build it: expires = now + ttl_days
CacheEntry(value, now) == [value |-> value, expires_at |-> now + ttl_days]

NoEntry == [value |-> <<>>, expires_at |-> 0 - 1]

\* mutant: no entry ever expires
is_expired_Never(entry) == FALSE

\* CacheEntry.is_expired: datetime.now() > expires
is_expired(entry) == clock > entry.expires_at

Put(tbl, k, e) == [x \in (DOMAIN tbl) \cup {k} |-> IF x = k THEN e ELSE tbl[x]]

\* mutant: the schema version of the document is not looked at
LoadTable_AnyVersion(doc) ==
    IF doc.exists /\ doc.whole
    THEN [k \in { x \in DOMAIN doc.entries : ~is_expired(doc.entries[x]) } |-> doc.entries[k]]
    ELSE << >>

\* _load_caches for one table: _read_json_locked, then the entries that are
\* not expired; a document that cannot be parsed or has another version
\* leaves the table empty
LoadTable(doc) ==
    IF doc.exists /\ doc.whole /\ doc.version = CACHE_VERSION
    THEN [k \in { x \in DOMAIN doc.entries : ~is_expired(doc.entries[x]) } |-> doc.entries[k]]
    ELSE << >>

\* mutant: the document written over the table file itself
_write_json_atomic_InPlace(fs, ts, p, path) ==
    [files |-> [fs EXCEPT ![path] = Partial], temps |-> ts]

\* _write_json_atomic up to the end of json.dump: the document goes to a
\* fresh temporary file of the cache directory (lines 217-228)
_write_json_atomic(fs, ts, p, path) ==
    [files |-> fs, temps |-> [ts EXCEPT ![p] = Partial]]

\* os.replace(temp_path, path) once the document is whole (line 232)
os_replace(fs, ts, p, path, entries) ==
    [files |-> [fs EXCEPT ![path] = Whole(entries)], temps |-> [ts EXCEPT ![p] = Absent]]

\* _hash_content
_hash_content(content) == <<"sha256", content>>

\* _generate_summary_key: the digest of the joined components
_generate_summary_key(date, commit_hashes, diff_hash, config_hash) ==
    <<"summary", date,
      SubSeq(commit_hashes, 1, IF Len(commit_hashes) < 3 THEN Len(commit_hashes) ELSE 3),
      Len(commit_hashes), diff_hash, config_hash>>

\* the inputs the summary calls are made with: the first commit of the branch
SummaryInput == [date |-> Label(1, 1), commits |-> <<3>>, diff_content |-> "diff 3"]

SummaryKey ==
    _generate_summary_key(SummaryInput.date, SummaryInput.commits,
                          _hash_content(SummaryInput.diff_content), ConfigHash)

\* the plans the plan calls are made with: the plan of day 1 and of day 2
CachePlans ==
    { [start_date |-> d, end_date |-> d,
       plan |-> SquashPlan(<<SquashPlanItem(Label(d, d), <<2 + d>>, ShortMsg, NoPart)>>, 1)] :
      d \in 1..2 }

PlanKey(r) == PlanKeyOf(r.start_date, r.end_date, r.plan.items[1].commits)

\* the summary an invocation generated for these inputs and stores: the
\* model's answers differ from one invocation to the next
GeneratedBy(p) == IF p % 2 = 1 THEN ShortMsg ELSE LongMsg

NoGot == [kind |-> "none", by |-> 0, hit |-> FALSE, entry |-> NoEntry]

Idle == [at |-> "none", op |-> "none", hashes |-> {}, call |-> 0]

\* the table files _load_caches could not use
ColdPaths == { path \in {"summary", "plan"} :
                 ~files[path].whole \/ files[path].version # CACHE_VERSION }

\* GitSquashCache.__init__: both files exist, so _initialize_cache_files
\* writes nothing, and _load_caches reads the summary table and the plan table
GitSquashCache(p) ==
    /\ cpc[p].at = "none"
    /\ cold' = [cold EXCEPT ![p] = ColdPaths]
    /\ mem' = [mem EXCEPT ![p] = [summary |-> LoadTable(files.summary),
                                  plan |-> LoadTable(files.plan)]]
    /\ born' = [born EXCEPT ![p] = durable]
    /\ mine' = [mine EXCEPT ![p] = NoEntry]
    /\ cpc' = [cpc EXCEPT ![p] = [at |-> "ready", op |-> "none", hashes |-> {}, call |-> 0]]
    /\ got' = NoGot
    /\ UNCHANGED <<clock, files, temps, durable, squashed, nWrites>>

\* _persist_caches up to the json.dump of the summary table
StartPersist(p) ==
    LET w == _write_json_atomic(files, temps, p, "summary")
    IN  files' = w.files /\ temps' = w.temps

\* what get_summary and get_plan do with the table of the instance
Lookup(kind, p, tbl, k) ==
    IF k \in DOMAIN tbl /\ ~is_expired(tbl[k])
    THEN [kind |-> kind, by |-> p, hit |-> TRUE, entry |-> tbl[k]]
    ELSE [kind |-> kind, by |-> p, hit |-> FALSE, entry |-> NoEntry]

get_summary(p) ==
    /\ cpc[p].at = "ready"
    /\ got' = Lookup("summary", p, mem[p].summary, SummaryKey)
    /\ UNCHANGED <<cold, clock, files, temps, mem, cpc, mine, born, durable, squashed, nWrites>>

get_plan(p) ==
    /\ cpc[p].at = "ready"
    /\ \E r \in CachePlans : got' = Lookup("plan", p, mem[p].plan, PlanKey(r))
    /\ UNCHANGED <<cold, clock, files, temps, mem, cpc, mine, born, durable, squashed, nWrites>>

\* set_summary up to the json.dump of the summary table in _persist_caches
set_summary(p) ==
    /\ cpc[p].at = "ready"
    /\ nWrites < MaxWrites
    /\ \E summary \in {GeneratedBy(p)} :
         LET entry == CacheEntry(summary, clock)
         IN  /\ mem' = [mem EXCEPT ![p].summary = Put(@, SummaryKey, entry)]
             /\ mine' = [mine EXCEPT ![p] = entry]
    /\ StartPersist(p)
    /\ cpc' = [cpc EXCEPT ![p] = [at |-> "replace_summary", op |-> "set_summary", hashes |-> {},
                                  call |-> nWrites + 1]]
    /\ nWrites' = nWrites + 1
    /\ got' = NoGot
    /\ UNCHANGED <<cold, clock, born, durable, squashed>>

\* set_plan up to the json.dump of the summary table in _persist_caches
set_plan(p) ==
    /\ cpc[p].at = "ready"
    /\ nWrites < MaxWrites
    /\ \E r \in CachePlans :
         /\ mem' = [mem EXCEPT ![p].plan =
                      Put(@, PlanKey(r), CacheEntry(SerializePlan(r.plan), clock))]
         /\ squashed' = squashed \ CommitsInPlan(r.plan)
    /\ StartPersist(p)
    /\ cpc' = [cpc EXCEPT ![p] = [at |-> "replace_summary", op |-> "set_plan", hashes |-> {},
                                  call |-> nWrites + 1]]
    /\ nWrites' = nWrites + 1
    /\ got' = NoGot
    /\ UNCHANGED <<cold, clock, mine, born, durable>>

\* the serialized plans of a plan table
Values(tbl) == [k \in DOMAIN tbl |-> tbl[k].value]

\* GitSquashCache.invalidate_plan as called by execute_squash_plan: the
\* entries are removed from the table of the instance, and the tables are
\* persisted only if an entry was removed
InvalidatePlan(p) ==
    /\ cpc[p].at = "ready"
    /\ nWrites < MaxWrites
    /\ \E r \in CachePlans :
         LET left == DOMAIN invalidate_plan(Values(mem[p].plan), r.plan)
             keys_to_remove == (DOMAIN mem[p].plan) \ left
         IN  /\ mem' = [mem EXCEPT ![p].plan = [k \in left |-> mem[p].plan[k]]]
             /\ squashed' = squashed \cup CommitsInPlan(r.plan)
             /\ IF keys_to_remove # {}
                THEN StartPersist(p)
                ELSE UNCHANGED <<files, temps>>
             /\ cpc' = [cpc EXCEPT ![p] =
                          [at |-> IF keys_to_remove # {} THEN "replace_summary" ELSE "ready",
                           op |-> "invalidate_plan", hashes |-> CommitsInPlan(r.plan),
                           call |-> nWrites + 1]]
    /\ nWrites' = nWrites + 1
    /\ got' = NoGot
    /\ UNCHANGED <<cold, clock, mine, born, durable>>

\* _persist_caches after the summary table is dumped: the rename puts it in
\* place, then the plan table is dumped to a temporary file of its own
ReplaceSummary(p) ==
    /\ cpc[p].at = "replace_summary"
    /\ LET w == os_replace(files, temps, p, "summary", mem[p].summary)
           v == _write_json_atomic(w.files, w.temps, p, "plan")
       IN  files' = v.files /\ temps' = v.temps
    /\ durable' = IF cpc[p].op = "set_summary" THEN mine[p] ELSE durable
    /\ cpc' = [cpc EXCEPT ![p].at = "replace_plan"]
    /\ got' = NoGot
    /\ UNCHANGED <<cold, clock, mem, mine, born, squashed, nWrites>>

\* the end of _persist_caches: the rename puts the plan table in place
ReplacePlan(p) ==
    /\ cpc[p].at = "replace_plan"
    /\ LET w == os_replace(files, temps, p, "plan", mem[p].plan)
       IN  files' = w.files /\ temps' = w.temps
    /\ cpc' = [cpc EXCEPT ![p].at = "ready"]
    /\ got' = NoGot
    /\ UNCHANGED <<cold, clock, mem, mine, born, durable, squashed, nWrites>>

\* the invocation ends; a later one makes a new GitSquashCache
Exit(p) ==
    /\ cpc[p].at = "ready"
    /\ cpc' = [cpc EXCEPT ![p] = Idle]
    /\ mem' = [mem EXCEPT ![p] = [summary |-> << >>, plan |-> << >>]]
    /\ mine' = [mine EXCEPT ![p] = NoEntry]
    /\ born' = [born EXCEPT ![p] = NoEntry]
    /\ cold' = [cold EXCEPT ![p] = {}]
    /\ got' = NoGot
    /\ UNCHANGED <<clock, files, temps, durable, squashed, nWrites>>

\* a day passes
Tick ==
    /\ clock < MaxClock
    /\ clock' = clock + 1
    /\ got' = NoGot
    /\ UNCHANGED <<cold, files, temps, mem, cpc, mine, born, durable, squashed, nWrites>>

toolVars == <<repoVars, planVars, execVars, auxVars>>
storeVars == <<repoVars, planVars, execVars, cacheVars>>

Construct == \E p \in Procs : GitSquashCache(p) /\ UNCHANGED toolVars
Get == \E p \in Procs : (get_summary(p) \/ get_plan(p)) /\ UNCHANGED toolVars
Set == \E p \in Procs : (set_summary(p) \/ set_plan(p)) /\ UNCHANGED toolVars
Invalidate == \E p \in Procs : InvalidatePlan(p) /\ UNCHANGED toolVars
Persist == \E p \in Procs : (ReplaceSummary(p) \/ ReplacePlan(p)) /\ UNCHANGED toolVars
Leave == \E p \in Procs : Exit(p) /\ UNCHANGED toolVars
Pass == Tick /\ UNCHANGED toolVars

(* ----------------------------- the command line ------------------------ *)
NoExit == 0 - 1

\* the command was not run yet
NoRun == [at |-> "start", execute |-> FALSE, no_backup |-> FALSE, answer |-> "none",
          exit |-> NoExit, refs |-> << >>, commits |-> 0]

\* mutant: the plan is executed whatever the options and the answer
ShouldExecute_Always(execute, answer) == TRUE

\* lines 346-349: the plan is executed when --execute is given and
\* confirm_execution returned True
ShouldExecute(execute, answer) == execute /\ answer = "yes"

\* async_main is entered with --execute or not, --no-backup or not; the
\* branches and commits of the repository at that moment are remembered
CliStart ==
    /\ cli.at = "start"
    /\ \E execute \in BOOLEAN, no_backup \in BOOLEAN :
         cli' = [at |-> "plan", execute |-> execute, no_backup |-> no_backup,
                 answer |-> "none", exit |-> NoExit, refs |-> refs,
                 commits |-> Len(commits)]
    /\ UNCHANGED <<storeVars, fault, keyArgs, keyOut, cfg, fmt, retry, proc, trunc>>

\* line 335: await tool.prepare_squash_plan(...)
CliPrepare ==
    /\ cli.at = "plan"
    /\ nPrepare = 0
    /\ Prepare

\* lines 337-349 and 371-404: an error of the planner ends the run with exit
\* code 1; without --execute the run ends with 0; with it the user is asked,
\* and "no" ends the run with 0
CliDecide ==
    /\ cli.at = "plan"
    /\ nPrepare = 1
    /\ IF planErr # "none"
       THEN cli' = [cli EXCEPT !.at = "exited", !.exit = 1]
       ELSE \E answer \in (IF cli.execute THEN {"yes", "no"} ELSE {"none"}) :
              IF ShouldExecute(cli.execute, answer)
              THEN cli' = [cli EXCEPT !.at = "execute", !.answer = answer]
              ELSE cli' = [cli EXCEPT !.at = "exited", !.answer = answer, !.exit = 0]
    /\ UNCHANGED <<storeVars, fault, keyArgs, keyOut, cfg, fmt, retry, proc, trunc>>

\* lines 351-362: tool.execute_squash_plan(plan, branch_name, base_branch),
\* step by step
CliExecute ==
    /\ cli.at = "execute"
    /\ \/ ExecBackup
       \/ ExecCreateBranch
       \/ ExecResetToParent
       \/ ExecResolveBase
       \/ ExecItem
       \/ ExecInvalidate
       \/ ExecGitFails

\* lines 364-386 and 388-404: 0 after the execution, 1 when it raised
CliExit ==
    /\ cli.at = "execute"
    /\ nExec = 1
    /\ pc \in {"done", "aborted"}
    /\ cli' = [cli EXCEPT !.at = "exited", !.exit = IF pc = "done" THEN 0 ELSE 1]
    /\ UNCHANGED <<storeVars, fault, keyArgs, keyOut, cfg, fmt, retry, proc, trunc>>

(* ------------------------------ GitSquashConfig ------------------------- *)
\* x in text, for strings given as sequences of characters
Contains(text, x) ==
    \E i \in 1..Len(text) :
        i + Len(x) - 1 <= Len(text) /\ SubSeq(text, i, i + Len(x) - 1) = x

\* invalid_chars (lines 78-79)
invalid_chars ==
    {<<" ">>, <<"\n">>, <<"\t">>, <<".", ".">>, <<"~">>, <<"^">>, <<":">>, <<"?">>,
     <<"*">>, <<"[">>, <<"\\">>}

\* mutant: the number of retry attempts has no upper limit
post_init_NoRetryCap(c) ==
    /\ c.total_message_limit > 0
    /\ c.subject_line_limit > 0
    /\ c.body_line_width > 0
    /\ c.subject_line_limit <= c.total_message_limit
    /\ c.split_threshold_commits > 0
    /\ c.split_threshold_hours > 0
    /\ c.time_gap_hours >= 0
    /\ c.max_retry_attempts > 0
    /\ \A x \in invalid_chars :
         ~Contains(c.branch_prefix, x) /\ ~Contains(c.backup_branch_prefix, x)

\* __post_init__: TRUE when no ValueError is raised
post_init(c) ==
    /\ c.total_message_limit > 0
    /\ c.subject_line_limit > 0
    /\ c.body_line_width > 0
    /\ c.subject_line_limit <= c.total_message_limit
    /\ c.split_threshold_commits > 0
    /\ c.split_threshold_hours > 0
    /\ c.time_gap_hours >= 0
    /\ c.max_retry_attempts > 0
    /\ c.max_retry_attempts <= 10
    /\ \A x \in invalid_chars :
         ~Contains(c.branch_prefix, x) /\ ~Contains(c.backup_branch_prefix, x)

\* the values the fields are given
FieldValues ==
    [subject_line_limit |-> {0, 1, 3},
     body_line_width |-> {0, 1},
     total_message_limit |-> {0, 2},
     split_threshold_commits |-> {0, 20},
     split_threshold_hours |-> {23},
     time_gap_hours |-> {0 - 1, 2},
     max_retry_attempts |-> {0, 1, 10, 11},
     branch_prefix |-> {<<"f", "/">>, <<"f", ".", "x", "/">>, <<"f", " ", "/">>,
                        <<".", ".", "/">>},
     backup_branch_prefix |-> {<<"b", "/">>, <<"b", "~">>}]

FieldNames == DOMAIN FieldValues

\* the arguments of the constructor
ConfigFields ==
    [subject_line_limit : FieldValues.subject_line_limit,
     body_line_width : FieldValues.body_line_width,
     total_message_limit : FieldValues.total_message_limit,
     split_threshold_commits : FieldValues.split_threshold_commits,
     split_threshold_hours : FieldValues.split_threshold_hours,
     time_gap_hours : FieldValues.time_gap_hours,
     max_retry_attempts : FieldValues.max_retry_attempts,
     branch_prefix : FieldValues.branch_prefix,
     backup_branch_prefix : FieldValues.backup_branch_prefix]

NoConfig == << >>
NoCall == [kind |-> "none", self |-> NoConfig, after |-> NoConfig, fields |-> NoConfig,
           err |-> "none", out |-> NoConfig]

\* GitSquashConfig(**fields): the dataclass constructor, then __post_init__
NewConfig(fields) ==
    IF post_init(fields) THEN [err |-> "none", out |-> fields]
    ELSE [err |-> "ValueError", out |-> NoConfig]

\* with_overrides (lines 105-111): the fields of the receiver are copied,
\* updated with the keyword arguments and given to the constructor
with_overrides(self, kwargs) ==
    LET fields == [f \in FieldNames |-> IF f \in DOMAIN kwargs THEN kwargs[f] ELSE self[f]]
    IN  [fields |-> fields, after |-> self, result |-> NewConfig(fields)]

\* GitSquashConfig(...) is called, once, when the program starts
ConfigConstruct ==
    /\ cfg.kind = "none"
    /\ \E fields \in ConfigFields :
         LET r == NewConfig(fields)
         IN  cfg' = [kind |-> "construct", self |-> NoConfig, after |-> NoConfig,
                     fields |-> fields, err |-> r.err, out |-> r.out]
    /\ UNCHANGED <<storeVars, fault, keyArgs, keyOut, cli, fmt, retry, proc, trunc>>

\* with_overrides is called on the configuration the last call produced, with
\* no keyword argument or with one
ConfigOverride ==
    /\ cfg.err = "none" /\ cfg.out # NoConfig
    /\ \E f \in FieldNames, n \in 0..1 :
         \E v \in FieldValues[f] :
           LET kwargs == IF n = 0 THEN << >> ELSE [x \in {f} |-> v]
               w == with_overrides(cfg.out, kwargs)
           IN  cfg' = [kind |-> "override", self |-> cfg.out, after |-> w.after,
                       fields |-> w.fields, err |-> w.result.err, out |-> w.result.out]
    /\ UNCHANGED <<storeVars, fault, keyArgs, keyOut, cli, fmt, retry, proc, trunc>>

(* ------------------------------ MessageFormatter ------------------------ *)
\* Texts are sequences of one-character strings.
\* str.isspace for one character
IsSpace(ch) == ch \in {" ", "\n", "\t"}

RECURSIVE lstrip(_)
lstrip(s) == IF s # <<>> /\ IsSpace(Head(s)) THEN lstrip(Tail(s)) ELSE s

RECURSIVE rstrip(_)
rstrip(s) == IF s # <<>> /\ IsSpace(s[Len(s)]) THEN rstrip(SubSeq(s, 1, Len(s) - 1)) ELSE s

\* str.strip()
strip(s) == rstrip(lstrip(s))

RECURSIVE split_on(_, _)
\* text.split(sep) for a separator of one character
split_on(text, sep) ==
    IF \A i \in 1..Len(text) : text[i] # sep THEN <<text>>
    ELSE LET i == CHOOSE k \in 1..Len(text) :
                      text[k] = sep /\ \A j \in 1..(k - 1) : text[j] # sep
         IN  <<SubSeq(text, 1, i - 1)>> \o split_on(SubSeq(text, i + 1, Len(text)), sep)

RECURSIVE split(_)
\* str.split(): the words between runs of whitespace
split(s) ==
    LET t == lstrip(s)
    IN  IF t = <<>> THEN <<>>
        ELSE LET n == CHOOSE k \in 1..Len(t) :
                          /\ \A j \in 1..k : ~IsSpace(t[j])
                          /\ (k = Len(t) \/ IsSpace(t[k + 1]))
             IN  <<SubSeq(t, 1, n)>> \o split(SubSeq(t, n + 1, Len(t)))

RECURSIVE join(_, _)
\* sep.join(lines)
join(sep, lines) ==
    IF lines = <<>> THEN <<>>
    ELSE IF Len(lines) = 1 THEN lines[1]
    ELSE lines[1] \o sep \o join(sep, Tail(lines))

\* str.upper() for one character
upper(ch) == IF ch = "a" THEN "A" ELSE IF ch = "b" THEN "B" ELSE ch

\* s[:n], n of either sign
Prefix(s, n) ==
    IF n >= 0 THEN SubSeq(s, 1, IF n < Len(s) THEN n ELSE Len(s))
    ELSE SubSeq(s, 1, IF Len(s) + n > 0 THEN Len(s) + n ELSE 0)

\* the bullets wrap_text recognises (line 118); "U+2022" stands for the one
\* character of that code point
Bullets == {<<"-", " ">>, <<"*", " ">>, <<"U+2022", " ">>}

RECURSIVE WrapWords(_, _, _, _)
\* the loops of lines 132-139 and 150-157: the words are appended to the
\* current line while it fits; a new line starts with cont
WrapWords(words, current, width, cont) ==
    IF words = <<>> THEN (IF current # <<>> THEN <<current>> ELSE <<>>)
    ELSE IF Len(current \o <<" ">> \o Head(words)) <= width
         THEN WrapWords(Tail(words), current \o <<" ">> \o Head(words), width, cont)
         ELSE <<current>> \o WrapWords(Tail(words), cont \o Head(words), width, cont)

\* the body of the loop of wrap_text (lines 113-157) for one line
WrapLine(line, width, indent) ==
    LET stripped == strip(line)
    IN  IF stripped = <<>> THEN << <<>> >>
        ELSE IF Len(stripped) >= 2 /\ SubSeq(stripped, 1, 2) \in Bullets
        THEN LET bullet == SubSeq(stripped, 1, 2)
                 content == strip(SubSeq(stripped, 3, Len(stripped)))
                 first_line == indent \o bullet \o <<" ">> \o content
                 words == split(content)
             IN  IF Len(first_line) <= width THEN <<first_line>>
                 ELSE IF words # <<>>
                      THEN WrapWords(Tail(words), indent \o bullet \o <<" ">> \o Head(words),
                                     width, indent \o <<" ", " ">>)
                      ELSE <<>>
        ELSE LET line_content == indent \o stripped
                 words == split(stripped)
             IN  IF Len(line_content) <= width THEN <<line_content>>
                 ELSE IF words # <<>>
                      THEN WrapWords(Tail(words), indent \o Head(words), width, indent)
                      ELSE <<>>

\* MessageFormatter.wrap_text
wrap_text(text, width, indent) ==
    LET lines == split_on(text, "\n")
    IN  Concat([i \in 1..Len(lines) |-> WrapLine(lines[i], width, indent)])

RECURSIVE DropTrailingEmpty(_)
\* lines 202-203
DropTrailingEmpty(result) ==
    IF result # <<>> /\ result[Len(result)] = <<>>
    THEN DropTrailingEmpty(SubSeq(result, 1, Len(result) - 1))
    ELSE result

\* the subject rules of lines 169-180
SubjectRules(line, config) ==
    LET s0 == strip(line)
        s1 == IF s0 = <<>> THEN s0 ELSE <<upper(s0[1])>> \o Tail(s0)
        s2 == IF s1 # <<>> /\ s1[Len(s1)] = "." THEN SubSeq(s1, 1, Len(s1) - 1) ELSE s1
    IN  IF s0 = <<>> THEN s0
        ELSE IF Len(s2) > config.subject_line_limit
             THEN Prefix(s2, config.subject_line_limit - 3) \o <<".", ".", ".">>
             ELSE s2

\* MessageFormatter.format_commit_message
format_commit_message(raw_message, config) ==
    LET lines == split_on(raw_message, "\n")
        subject == SubjectRules(lines[1], config)
        body_lines == IF strip(lines[2]) = <<>> THEN SubSeq(lines, 3, Len(lines))
                      ELSE Tail(lines)
        formatted_body ==
            Concat([i \in 1..Len(body_lines) |->
                      IF strip(body_lines[i]) = <<>> THEN << <<>> >>
                      ELSE wrap_text(body_lines[i], config.body_line_width, <<>>)])
    IN  IF Len(lines) < 3 THEN subject
        ELSE join(<<"\n">>, DropTrailingEmpty(<<subject, <<>> >> \o formatted_body))

\* GitSquashConfig(): the defaults of the fields
DefaultConfig ==
    [subject_line_limit |-> 96, body_line_width |-> 96, total_message_limit |-> 1500,
     split_threshold_commits |-> 20, split_threshold_hours |-> 23, time_gap_hours |-> 2,
     max_retry_attempts |-> 3,
     branch_prefix |-> <<"f", "e", "a", "t", "u", "r", "e", "/">>,
     backup_branch_prefix |-> <<"b", "a", "c", "k", "u", "p", "/">>]

\* the configurations messages are formatted with: the valid ones among the
\* defaults with short limits
FormatConfigs ==
    { c \in { [DefaultConfig EXCEPT !.subject_line_limit = s, !.body_line_width = w] :
                s \in {0, 2, 4}, w \in {0, 3, 4} } : post_init(c) }

\* the characters and the lines of the bodies
BodyChars == {"a", " ", "-"}
BodyLines == UNION { [1..n -> BodyChars] : n \in 0..MaxLine }

\* the first lines and the second lines of the raw messages
SubjectLines ==
    {<<>>, <<"a">>, <<"A", ".">>, <<"A", "a", "b">>, <<" ", "b", "a", "a", "b", "a">>}
SecondLines == {<<>>, <<"a">>}

\* the raw messages: one, two or three lines
RawMessages ==
    { join(<<"\n">>, ls) :
        ls \in { <<s>> : s \in SubjectLines }
               \cup { <<s, t>> : s \in SubjectLines, t \in SecondLines }
               \cup { <<s, t, b>> : s \in SubjectLines, t \in SecondLines, b \in BodyLines } }

NoFormat == [raw |-> <<>>, config |-> DefaultConfig, once |-> <<>>, twice |-> <<>>,
             done |-> FALSE]

\* format_commit_message is called on a raw message, and again on its result
FormatMessage ==
    /\ ~fmt.done
    /\ \E raw \in RawMessages, config \in FormatConfigs :
         LET once == format_commit_message(raw, config)
         IN  fmt' = [raw |-> raw, config |-> config, once |-> once,
                     twice |-> format_commit_message(once, config), done |-> TRUE]
    /\ UNCHANGED <<storeVars, fault, keyArgs, keyOut, cli, cfg, retry, proc, trunc>>

(* ------------------- the retry loop, one attempt at a time --------------- *)
\* what the backend may answer to one call of the loop
Answers ==
    {<<"a">>, <<"b", "b">>, <<"c", "c", "c">>, <<"d", "d", "d", "d">>,
     <<"e", "e", "e", "e", "e">>}

\* the configurations of the loop: the valid ones among the defaults with few
\* attempts and a short total_message_limit
RetryConfigs ==
    { c \in { [DefaultConfig EXCEPT !.max_retry_attempts = n, !.total_message_limit = t,
                                    !.subject_line_limit = 1] :
                n \in 0..MaxAttempts, t \in {0, 2, 3} } : post_init(c) }

\* None, and a summary, as previous_summary and as return value
None == << >>
Some(m) == <<m>>

NoRetry == [at |-> "idle", config |-> DefaultConfig, attempt |-> 0, summary |-> None,
            calls |-> <<>>, ret |-> None, cached |-> None, writes |-> <<>>]

\* ClaudeClient.generate_summary (claude.py lines 117-177) for one call of the
\* loop: at attempt 1 an entry of the summary cache is returned when there
\* is one; otherwise the backend is asked, and either its message is
\* returned, after set_summary at attempt 1, or the fallback summary is.
\* The result holds the message, its source and the new cache content.
generate_summary(attempt, cached, source, answer) ==
    IF attempt = 1 /\ cached # None
    THEN [answer |-> cached[1], source |-> "cache", cached |-> cached, wrote |-> FALSE]
    ELSE IF source = "backend"
    THEN [answer |-> answer, source |-> "backend",
          cached |-> IF attempt = 1 THEN Some(answer) ELSE cached,
          wrote |-> attempt = 1]
    ELSE [answer |-> answer, source |-> "fallback", cached |-> cached, wrote |-> FALSE]

\* mutant: no summary fits
Fits_Never(summary, config) == FALSE

\* line 367
Fits(summary, config) == Len(summary) <= config.total_message_limit

\* mutant: the last summary is cut to the limit
Exhausted_Truncated(summary, config) ==
    Some(Prefix(summary[1], config.total_message_limit))

\* line 374: the value returned when no attempt fitted
Exhausted(summary, config) == summary

\* lines 341-342: the loop is entered
RetryStart ==
    /\ retry.at = "idle"
    /\ \E config \in RetryConfigs, cached \in {None} \cup { Some(m) : m \in Answers } :
         retry' = [at |-> "loop", config |-> config, attempt |-> 1, summary |-> None,
                   calls |-> <<>>, ret |-> None, cached |-> cached, writes |-> <<>>]
    /\ UNCHANGED <<storeVars, fault, keyArgs, keyOut, cli, cfg, fmt, proc, trunc>>

\* lines 342-371: one iteration, the backend is called and its answer is
\* returned when it fits
RetryAttempt ==
    /\ retry.at = "loop"
    /\ retry.attempt <= retry.config.max_retry_attempts
    /\ \E message \in Answers, source \in {"backend", "fallback"} :
         LET g == generate_summary(retry.attempt, retry.cached, source, message)
             answer == g.answer
             call == [attempt |-> retry.attempt, previous_summary |-> retry.summary,
                      answer |-> answer, source |-> g.source]
             writes == IF g.wrote
                       THEN Append(retry.writes, [attempt |-> retry.attempt,
                                                  summary |-> answer, source |-> g.source])
                       ELSE retry.writes
         IN  retry' = IF Fits(answer, retry.config)
                      THEN [retry EXCEPT !.at = "returned", !.summary = Some(answer),
                                         !.calls = Append(@, call), !.ret = Some(answer),
                                         !.cached = g.cached, !.writes = writes]
                      ELSE [retry EXCEPT !.attempt = @ + 1, !.summary = Some(answer),
                                         !.calls = Append(@, call),
                                         !.cached = g.cached, !.writes = writes]
    /\ UNCHANGED <<storeVars, fault, keyArgs, keyOut, cli, cfg, fmt, proc, trunc>>

\* line 374: the attempts are exhausted
RetryExhausted ==
    /\ retry.at = "loop"
    /\ retry.attempt > retry.config.max_retry_attempts
    /\ retry' = [retry EXCEPT !.at = "returned", !.ret = Exhausted(retry.summary, retry.config)]
    /\ UNCHANGED <<storeVars, fault, keyArgs, keyOut, cli, cfg, fmt, proc, trunc>>

(* ---------------------- _process_commits, called directly --------------- *)
\* the recursion depths _process_commits is entered with
Depths == {0, MAX_RECURSION_DEPTH, MAX_RECURSION_DEPTH + 1, MAX_RECURSION_DEPTH + 2}

NoProc == [called |-> FALSE, date |-> Label(1, 1), commits |-> <<>>, depth |-> 0,
           up |-> TRUE, out |-> Ok(<<>>), outs |-> {}]

\* _process_commits(date, commits, depth) is called, once, on the commits of
\* one date of the log
ProcessBatch ==
    /\ ~proc.called
    /\ LET log == GitLog(BaseBranch, head)
       IN  \E d \in Range(DateKeys(log)), depth \in Depths, up \in BOOLEAN :
             LET outs == _process_commits(Label(d, d), Group(log, d), depth, up)
             IN  \E out \in outs :
                   proc' = [called |-> TRUE, date |-> Label(d, d),
                            commits |-> Group(log, d), depth |-> depth, up |-> up,
                            out |-> out, outs |-> outs]
    /\ UNCHANGED <<storeVars, fault, keyArgs, keyOut, cli, cfg, fmt, retry, trunc>>

(* --------------------------- the hard truncation ------------------------ *)
\* the first lines and the body lines of the summaries
TruncSubjects == {"Rework the cache", "Rework the cache and the planner",
                  "Rework the cache, the planner and the executor"}
TruncLines == {"- a", "- drop the old keys", "- keep the plan of each range",
               "- write the tables through a temporary file"}

\* the summaries: a subject, a blank line and one to MaxBodyLines lines
TruncSummaries ==
    { <<s, "">> \o b : s \in TruncSubjects,
                       b \in UNION { [1..n -> TruncLines] : n \in 1..MaxBodyLines } }

NoTrunc == [called |-> FALSE, summary |-> <<>>, out |-> <<>>]

\* lines 292-305 of _split_day_commits: a summary longer than
\* total_message_limit is truncated
TruncateSummary ==
    /\ ~trunc.called
    /\ \E summary \in TruncSummaries :
         /\ MsgLen(summary) > total_message_limit
         /\ trunc' = [called |-> TRUE, summary |-> summary, out |-> HardTruncate(summary)]
    /\ UNCHANGED <<storeVars, fault, keyArgs, keyOut, cli, cfg, fmt, retry, proc>>

(* --------------------------- summary cache keys ------------------------- *)
\* the commit hashes the key calls are made with
KeyHashes == 3..(3 + MaxKeyCommits)

\* the commits of a batch: one to MaxKeyCommits hashes in log order
KeyLists ==
    { l \in UNION { [1..n -> KeyHashes] : n \in 1..MaxKeyCommits } :
        \A i \in 1..(Len(l) - 1) : l[i] < l[i + 1] }

\* the argument lists of _generate_summary_key
KeyArgs ==
    [date : {Label(1, 1), Label(2, 2)},
     commit_hashes : KeyLists,
     diff_hash : {_hash_content("diff 3"), _hash_content("diff 4")},
     config_hash : {ConfigHash, "cfg 2"}]

\* the first call is made on the commits 3, 4, ... in log order
FirstKeyArgs ==
    { a \in KeyArgs : \A i \in 1..Len(a.commit_hashes) : a.commit_hashes[i] = 2 + i }

\* _generate_summary_key is called on two argument lists, once
GenerateKeys ==
    /\ keyArgs = <<>>
    /\ \E a \in FirstKeyArgs, b \in KeyArgs :
         /\ keyArgs' = <<a, b>>
         /\ keyOut' = <<_generate_summary_key(a.date, a.commit_hashes, a.diff_hash,
                                              a.config_hash),
                        _generate_summary_key(b.date, b.commit_hashes, b.diff_hash,
                                              b.config_hash)>>
    /\ UNCHANGED <<storeVars, fault, cli, cfg, fmt, retry, proc, trunc>>

(* ------------------------------ initial state --------------------------- *)
AuthorNames == <<"alice", "bob">>
AuthorEmails == <<"a@example.com", "b@example.com", "c@example.com",
                  "d@example.com", "e@example.com">>

BaseCommit(id, parents) ==
    [parents |-> parents, tree |-> id, message |-> <<"Base">>,
     author_name |-> "user", author_email |-> "user@example.com", date |-> 0]

SourceCommit(id, parent, t) ==
    [parents |-> IF parent = NoCommit THEN <<>> ELSE <<parent>>,
     tree |-> id, message |-> <<Subjects[id - 2]>>,
     author_name |-> AuthorNames[(id % 2) + 1],
     author_email |-> AuthorEmails[id - 2], date |-> t]


\* the tool before its first call
ToolInit ==
    /\ head = WorkBranch
    /\ planCache = << >>
    /\ req = [start_date |-> NoDate, end_date |-> NoDate, combine |-> FALSE]
    /\ fetched = <<>>
    /\ plan = NoPlan
    /\ planErr = "none"
    /\ planSrc = "none"
    /\ nPrepare = 0
    /\ backendUp = TRUE
    /\ pc = "idle"
    /\ xplan = NoPlan
    /\ xtarget = Targets[1]
    /\ startHead = NoCommit
    /\ base_head = NoCommit
    /\ current_parent = NoCommit
    /\ created = <<>>
    /\ firstParent = NoCommit
    /\ nExec = 0
    /\ sessions = <<>>

\* no invocation on the cache directory yet
NoInvocation ==
    /\ clock = 0
    /\ temps = [p \in Procs |-> Absent]
    /\ mem = [p \in Procs |-> [summary |-> << >>, plan |-> << >>]]
    /\ cpc = [p \in Procs |-> Idle]
    /\ got = NoGot
    /\ mine = [p \in Procs |-> NoEntry]
    /\ born = [p \in Procs |-> NoEntry]
    /\ durable = NoEntry
    /\ squashed = {}
    /\ nWrites = 0
    /\ cold = [p \in Procs |-> {}]

\* an initialised cache directory with two empty tables, and no invocation
CacheInit ==
    /\ files = [path \in {"summary", "plan"} |-> Whole(<< >>)]
    /\ NoInvocation


\* no call of the functions that are checked on their own was made yet
AuxInit ==
    /\ keyArgs = <<>>
    /\ keyOut = <<>>
    /\ cli = NoRun
    /\ cfg = NoCall
    /\ fmt = NoFormat
    /\ retry = NoRetry
    /\ proc = NoProc
    /\ trunc = NoTrunc
    /\ fault = "none"

\* main holds commits 1 <- 2; dev holds n commits on top of fork, which is the
\* tip of main, the commit below it (main advanced since), or nothing (orphan)
Init ==
    /\ \E n \in 0..MaxCommits, fork \in {2, 1, NoCommit} :
         \E times \in [1..n -> 0..MaxTime] :
           /\ n = 0 => fork # NoCommit
           /\ commits = [id \in 1..(2 + n) |->
                 IF id = 1 THEN BaseCommit(1, <<>>)
                 ELSE IF id = 2 THEN BaseCommit(2, <<1>>)
                 ELSE SourceCommit(id, IF id = 3 THEN fork ELSE id - 1, times[id - 2])]
           /\ refs = [b \in Branches |->
                 IF b = BaseBranch THEN 2
                 ELSE IF b = WorkBranch THEN (IF n = 0 THEN fork ELSE 2 + n)
                 ELSE NoCommit]
    /\ ToolInit
    /\ CacheInit
    /\ AuxInit

\* a branch of two commits, one a day
FixedRepo ==
    /\ commits = [id \in 1..4 |->
          IF id = 1 THEN BaseCommit(1, <<>>)
          ELSE IF id = 2 THEN BaseCommit(2, <<1>>)
          ELSE SourceCommit(id, id - 1, 2 * (id - 3))]
    /\ refs = [b \in Branches |->
          IF b = BaseBranch THEN 2 ELSE IF b = WorkBranch THEN 4 ELSE NoCommit]

\* the cache store on that branch
InitCache ==
    /\ FixedRepo
    /\ ToolInit
    /\ CacheInit
    /\ AuxInit

\* what a table file written under another schema version holds
OtherEntries(path) ==
    IF path = "summary"
    THEN Put(<< >>, SummaryKey, CacheEntry(ShortMsg, MaxClock))
    ELSE LET r == CHOOSE x \in CachePlans : x.start_date = 1
         IN  Put(<< >>, PlanKey(r), CacheEntry(SerializePlan(r.plan), MaxClock))

\* a cache directory in which at least one table file is corrupted: it holds
\* invalid JSON, or a document of another schema version
InitCorrupt ==
    /\ FixedRepo
    /\ ToolInit
    /\ AuxInit
    /\ NoInvocation
    /\ \E bad \in [{"summary", "plan"} -> {"good", "json", "version"}] :
         /\ \E path \in DOMAIN bad : bad[path] # "good"
         /\ files = [path \in {"summary", "plan"} |->
                       IF bad[path] = "good" THEN Whole(<< >>)
                       ELSE IF bad[path] = "json" THEN Partial
                       ELSE OtherVersion(OtherEntries(path))]

Next ==
    \/ PrepareSession
    \/ ExecBackup
    \/ ExecCreateBranch
    \/ ExecResetToParent
    \/ ExecResolveBase
    \/ ExecItem
    \/ ExecInvalidate
    \/ ExecGitFails
    \/ MergeIntoBase
    \/ CheckoutWork

\* squash sessions: plan, execute, merge into the base, switch back, again
Spec == Init /\ [][Next]_vars

NextPlan == Prepare

\* the planner alone, called repeatedly on one repository and one cache
SpecPlan == Init /\ [][NextPlan]_vars

NextDown == PrepareDown

\* the planner alone, the generation backend raising on every call
SpecDown == Init /\ [][NextDown]_vars

\* several invocations of the tool on one cache directory
NextCache ==
    \/ Construct
    \/ Get
    \/ Set
    \/ Invalidate
    \/ Persist
    \/ Leave
    \/ Pass

SpecCache == InitCache /\ [][NextCache]_vars

NextCli ==
    \/ CliStart
    \/ CliPrepare
    \/ CliDecide
    \/ CliExecute
    \/ CliExit

\* one run of the command line
SpecCli == Init /\ [][NextCli]_vars

NextConfig ==
    \/ ConfigConstruct
    \/ ConfigOverride

\* configurations constructed and overridden
SpecConfig == InitCache /\ [][NextConfig]_vars

NextAmend ==
    \/ PrepareAll
    \/ AmendTip

\* the planner called repeatedly while the tip of the work branch is amended
SpecAmend == Init /\ [][NextAmend]_vars

\* invocations that construct the cache, set and get
NextCorrupt ==
    \/ Construct
    \/ Get
    \/ Set
    \/ Persist

SpecCorrupt == InitCorrupt /\ [][NextCorrupt]_vars

NextFormat == FormatMessage

\* format_commit_message on raw messages
SpecFormat == InitCache /\ [][NextFormat]_vars

NextRetry ==
    \/ RetryStart
    \/ RetryAttempt
    \/ RetryExhausted

\* one run of the loop of _generate_summary_with_retry
SpecRetry == InitCache /\ [][NextRetry]_vars

NextDepth == ProcessBatch

\* _process_commits on the batches of a log, at several depths
SpecDepth == Init /\ [][NextDepth]_vars

NextTrunc == TruncateSummary

\* the hard truncation of over-long summaries
SpecTrunc == InitCache /\ [][NextTrunc]_vars

NextFault ==
    \/ FirstPrepare
    \/ ExecBackup
    \/ ExecCreateBranch
    \/ ExecResetToParent
    \/ ExecResetLookupFails
    \/ ExecResolveBase
    \/ ExecResolveBaseFails
    \/ ExecItem
    \/ ExecItemLookupFails
    \/ ExecInvalidate
    \/ ExecGitFails

\* one execution in which a reference lookup may raise
SpecFault == Init /\ [][NextFault]_vars

NextKey == GenerateKeys

\* _generate_summary_key on pairs of argument lists
SpecKey == InitCache /\ [][NextKey]_vars

(* ================================ claims ================================ *)
\* the commits of the items of a plan, concatenated in item order
PlanCommits(p) == Concat([i \in 1..Len(p.items) |-> p.items[i].commits])

NoDuplicates(cs) == \A i, j \in 1..Len(cs) : i # j => cs[i] # cs[j]

\* the commits of the fetched log whose date passes the filter of the request
FilteredSet ==
    { c \in Range(fetched) :
        /\ (req.start_date = NoDate \/ DateKey(c) >= req.start_date)
        /\ (req.end_date = NoDate \/ DateKey(c) <= req.end_date) }

\* no commit of a later item is older than a commit of an earlier item
ItemsChronological(p) ==
    \A i, j \in 1..Len(p.items) :
        i < j => \A a \in Range(p.items[i].commits), b \in Range(p.items[j].commits) :
                     commits[a].date <= commits[b].date

\* C1: a plan returned by prepare_squash_plan, fresh or rebuilt from the plan
\* cache, holds every commit of the filtered commit set exactly once and no
\* other commit, and its items are in non-decreasing chronological order.
C1_PlanCoverage ==
    (nPrepare > 0 /\ planErr = "none") =>
        /\ NoDuplicates(PlanCommits(plan))
        /\ Range(PlanCommits(plan)) = FilteredSet
        /\ ItemsChronological(plan)

\* a plan of two items rebuilt from the cache for a combine request, on a
\* branch whose log order is not the order of the author dates
C1_Witness ==
    /\ planErr = "none"
    /\ planSrc = "cache"
    /\ req.combine
    /\ Len(plan.items) = 2
    /\ Len(fetched) = 3
    /\ \E i \in 1..2 : commits[fetched[i]].date > commits[fetched[i + 1]].date

\* an execution has run its loop at least once
Replayed == pc \in {"loop", "done", "aborted"} /\ created # <<>>

\* the feature branch of the first session: two distinct days, no filter, no combine
TwoDayFeature ==
    /\ nExec = 1
    /\ xplan = plan
    /\ ~req.combine /\ req.start_date = NoDate /\ req.end_date = NoDate
    /\ Cardinality({ DateKey(c) : c \in Range(fetched) }) = 2

\* C2: planning and executing, without combine, a feature branch whose
\* commits span two distinct days makes exactly two new commits on a new
\* branch rooted at the base, and the head of that branch has the tree of the
\* head of the feature branch.
C2_TwoDaySquash ==
    (pc = "done" /\ TwoDayFeature) =>
        /\ Len(created) = 2
        /\ refs[xtarget] = created[2]
        /\ IsAncestor(firstParent, refs[BaseBranch])
        /\ get_tree_hash(refs[xtarget]) = get_tree_hash(refs[WorkBranch])

OneDay(r, d) == r.start_date = d /\ r.end_date = d /\ ~r.combine

\* day 1 has been planned, executed and merged, and the planner has then been
\* called for day 2, a day the branch has commits of
IncrementalDay2 ==
    /\ Len(sessions) >= 1
    /\ OneDay(sessions[1].req, 1)
    /\ sessions[1].merged
    /\ nPrepare = 2
    /\ OneDay(req, 2)
    /\ head = WorkBranch
    /\ \E c \in Range(fetched) : DateKey(c) = 2

\* C4: after day 1 has been executed and merged into the base, planning and
\* executing day 2 against the updated base succeeds, and the first new commit
\* has the updated base tip as parent, the original parent of the first commit
\* of day 2 not being an ancestor of the base.
C4_IncrementalDay2 ==
    IncrementalDay2 =>
        /\ planErr = "none"
        /\ (nExec = 2 /\ pc = "done") =>
              /\ Len(commits[base_head].parents) = 2
              /\ firstParent = base_head
              /\ ~IsAncestor(ParentOf(xplan.items[1].commits[1]), base_head)

C6_TreeOfLastCommit ==
    Replayed =>
        \A i \in 1..Len(created) :
            commits[created[i]].tree =
                commits[xplan.items[i].commits[Len(xplan.items[i].commits)]].tree

C6_Witness ==
    /\ Replayed
    /\ Len(created) = 2
    /\ Len(xplan.items[2].commits) >= 2

\* C7: one new commit per plan item, in plan order; from the second item on
\* the parent is the new commit of the item before; on success the target
\* branch points to the new commit of the last item.
C7_LinearChain ==
    /\ Len(created) <= Len(xplan.items)
    /\ \A i \in 1..Len(created) :
          /\ created[i] \in Hashes
          /\ commits[created[i]].message = xplan.items[i].summary
          /\ i >= 2 => commits[created[i]].parents = <<created[i - 1]>>
    /\ NoDuplicates(created)
    /\ pc = "done" =>
          /\ Len(created) = Len(xplan.items)
          /\ refs[xtarget] = created[Len(created)]

C7_Witness ==
    /\ pc = "done"
    /\ Len(created) = 2
    /\ commits[created[2]].parents = <<created[1]>>

\* C8: every new commit carries the author name, author email and author date
\* of the first source commit of its item.
C8_AuthorOfFirstCommit ==
    Replayed =>
        \A i \in 1..Len(created) :
            LET new == commits[created[i]]
                first == commits[xplan.items[i].commits[1]]
            IN  /\ new.author_name = first.author_name
                /\ new.author_email = first.author_email
                /\ new.date = first.date

\* an item whose first and last commit differ in author and in date
C8_Witness ==
    /\ Replayed
    /\ LET cs == xplan.items[1].commits
       IN  /\ Len(cs) >= 2
           /\ commits[cs[1]].author_name # commits[cs[Len(cs)]].author_name
           /\ commits[cs[1]].date # commits[cs[Len(cs)]].date

\* C9: the backup branch is made first, pointing at the commit HEAD resolved
\* to when the call started: the step that makes it changes no other branch
\* and no commit, and every later step leaves it where it is, until the
\* execution has ended or aborted and after.
C9_BackupFirst ==
    [][ IF pc' = "backed_up"
        THEN /\ refs'[BackupBranch] = refs[head]
             /\ startHead' = refs[head]
             /\ commits' = commits
             /\ \A b \in Branches \ {BackupBranch} : refs'[b] = refs[b]
        ELSE /\ refs'[BackupBranch] = refs[BackupBranch]
             /\ pc' # "idle" => refs'[BackupBranch] = startHead' ]_vars

\* an execution aborted after it made a commit; the backup is still in place
C9_Witness ==
    /\ pc = "aborted"
    /\ created # <<>>
    /\ refs[BackupBranch] = startHead
    /\ refs[BackupBranch] # refs[xtarget]

\* the over-long messages the backend can leave the planner with
OverLong == { m \in Msgs : MsgLen(m) > total_message_limit }

\* C10: in a returned plan an item of a single commit never carries an
\* over-long generated summary: it carries a summary that fits or the hard
\* truncation of the over-long one.
C10_SingleCommitTruncated ==
    (nPrepare > 0 /\ planErr = "none" /\ planSrc = "fresh") =>
        \A i \in 1..Len(plan.items) :
            Len(plan.items[i].commits) = 1 =>
                plan.items[i].summary \in
                    (Msgs \ OverLong) \cup { HardTruncate(m) : m \in OverLong }

\* the errors the planner raises by design
DomainErrors == {"NoCommitsFoundError", "InvalidDateRangeError"}

C12_BackendDown ==
    (nPrepare > 0 /\ ~backendUp /\ planErr \notin DomainErrors) =>
        /\ planErr = "none"
        /\ plan.items # <<>>
        /\ \A i \in 1..Len(plan.items) : MsgLen(plan.items[i].summary) > 0

\* C13: with no commit reachable from the base the planner raises
\* NoCommitsFoundError, whatever the date filter and the combine flag, and
\* returns no plan.
C13_NoCommits ==
    (nPrepare > 0 /\ fetched = <<>>) =>
        /\ planErr = "NoCommitsFoundError"
        /\ plan = NoPlan

\* the date groups of the fetched log that lie within the requested bounds
KeptDates ==
    { d \in { DateKey(c) : c \in Range(fetched) } :
        /\ (req.start_date = NoDate \/ req.start_date <= d)
        /\ (req.end_date = NoDate \/ d <= req.end_date) }

\* C14: on a non-empty commit set a date group is kept iff it lies within
\* the bounds given (each optional, both inclusive): a returned plan holds
\* the commits of exactly those groups, and the planner raises
\* InvalidDateRangeError and returns no plan iff no group is kept.
C14_DateFilter ==
    (nPrepare > 0 /\ fetched # <<>>) =>
        /\ planErr = "none" =>
              /\ { DateKey(c) : c \in CommitsInPlan(plan) } = KeptDates
              /\ \A c \in Range(fetched) : DateKey(c) \in KeptDates => c \in CommitsInPlan(plan)
        /\ KeptDates = {} <=> planErr = "InvalidDateRangeError"
        /\ planErr = "InvalidDateRangeError" => plan = NoPlan

\* a filter of one day that keeps a group and drops another
C14_Witness ==
    /\ nPrepare > 0
    /\ planErr = "none"
    /\ planSrc = "fresh"
    /\ req.start_date # NoDate /\ req.start_date = req.end_date
    /\ KeptDates = {req.start_date}
    /\ \E c \in Range(fetched) : DateKey(c) \notin KeptDates

\* C15: a plan returned for a combine request, whatever was planned before
\* with the same cache, is made of the items of one batch: all the filtered
\* commits in chronological order, every item labelled with the single date
\* of the batch or with "<first> to <last>" when it spans several days.
C15_CombineOneBatch ==
    (nPrepare > 0 /\ planErr = "none" /\ req.combine) =>
        LET cs == PlanCommits(plan)
            lo == CHOOSE d \in KeptDates : \A e \in KeptDates : d <= e
            hi == CHOOSE d \in KeptDates : \A e \in KeptDates : d >= e
        IN  /\ Range(cs) = FilteredSet
            /\ \A i, j \in 1..Len(cs) : i < j => commits[cs[i]].date <= commits[cs[j]].date
            /\ \A i \in 1..Len(plan.items) : plan.items[i].date = Label(lo, hi)

\* the commit hashes a cached plan entry was stored with
EntryHashes(entry) ==
    UNION { Range(entry.value.items[i].commit_hashes) : i \in 1..Len(entry.value.items) }

\* the keys of a plan table whose entries share a hash with hs
Sharing(tbl, hs) == { k \in DOMAIN tbl : EntryHashes(tbl[k]) \cap hs # {} }

\* a step in which invocation p returns from invalidate_plan
InvalidateReturns(p) ==
    /\ cpc'[p].op = "invalidate_plan"
    /\ cpc'[p].at = "ready"
    /\ cpc[p] # cpc'[p]

\* C16: invalidate_plan(P) removes from the plan table, in memory and on
\* disk, every entry that shares a commit hash with P, keeps every entry
\* that shares none, and leaves the summary table unchanged: when the call
\* returns, neither the table of the instance nor the plan file holds an
\* entry sharing a hash with P; the step that edits the table of the instance
\* keeps its other entries and its summary table; and the steps that persist
\* keep the other entries of the plan file and the summary file as they were.
C16_Invalidate ==
    [][\A p \in Procs :
         /\ InvalidateReturns(p) =>
               /\ Sharing(mem'[p].plan, cpc'[p].hashes) = {}
               /\ Sharing(files'.plan.entries, cpc'[p].hashes) = {}
         /\ (cpc'[p].op = "invalidate_plan" /\ cpc'[p].call # cpc[p].call) =>
               /\ \A k \in (DOMAIN mem[p].plan) \ Sharing(mem[p].plan, cpc'[p].hashes) :
                      k \in DOMAIN mem'[p].plan /\ mem'[p].plan[k] = mem[p].plan[k]
               /\ mem'[p].summary = mem[p].summary
         /\ (cpc[p].op = "invalidate_plan" /\ cpc[p].at # "ready" /\ cpc'[p] # cpc[p]) =>
               /\ files'.summary.entries = files.summary.entries
               /\ \A k \in (DOMAIN files.plan.entries)
                            \ Sharing(files.plan.entries, cpc[p].hashes) :
                      k \in DOMAIN files'.plan.entries
      ]_vars

\* C17: once a plan was executed and the plan cache invalidated, no get_plan
\* of any invocation on the cache directory, one that loaded the cache before
\* the invalidation included, is served a cached plan that references one of
\* the squashed commit hashes (a plan stored anew after the invalidation is
\* not a stale one).
C17_NoStalePlan ==
    (got.kind = "plan" /\ got.hit) => EntryHashes(got.entry) \cap squashed = {}

\* C18: whatever the interleaving of an invocation persisting a table and
\* another one reading the table file, the reader finds the whole previous
\* table or the whole new one, never a half-written document: at every
\* moment both table files hold a whole document. No action of the model
\* waits for a lock, so this does not rest on the advisory locks.
C18_NoTornRead ==
    \A path \in {"summary", "plan"} : files[path].exists /\ files[path].whole

\* an invocation has dumped half of a new plan table while another one, just
\* constructed, holds the whole previous table read from the plan file
C18_Witness ==
    \E p, q \in Procs :
        /\ p # q
        /\ cpc[p].at = "replace_plan"
        /\ temps[p] = Partial
        /\ mem[p].plan # files.plan.entries
        /\ files.plan.entries # << >>
        /\ cpc[q] = [at |-> "ready", op |-> "none", hashes |-> {}, call |-> 0]
        /\ mem[q].plan = files.plan.entries

\* C19: set_summary followed by get_summary with the same inputs, before the
\* TTL elapses, returns exactly the stored summary, in the same cache
\* instance and in a new cache instance constructed afterwards on the same
\* cache directory.
C19_SummaryRoundTrip ==
    got.kind = "summary" =>
        /\ (mine[got.by] # NoEntry /\ clock <= mine[got.by].expires_at) =>
              (got.hit /\ got.entry.value = mine[got.by].value)
        /\ (mine[got.by] = NoEntry /\ born[got.by] # NoEntry
                /\ clock <= born[got.by].expires_at) =>
              (got.hit /\ got.entry.value = born[got.by].value)

\* C20: get_summary and get_plan never return an entry once now > expires_at,
\* where expires_at is the time of the set plus the configured TTL, for the
\* entries held in memory and for the entries read from disk when the cache
\* is constructed.
C20_Expiry ==
    [][/\ got'.hit => clock' <= got'.entry.expires_at
       /\ \A p \in Procs :
            /\ (cpc[p].at = "none" /\ cpc'[p].at = "ready") =>
                  /\ \A k \in DOMAIN mem'[p].summary :
                         clock' <= mem'[p].summary[k].expires_at
                  /\ \A k \in DOMAIN mem'[p].plan :
                         clock' <= mem'[p].plan[k].expires_at
            /\ (cpc'[p].op = "set_summary" /\ cpc'[p].call # cpc[p].call) =>
                  mem'[p].summary[SummaryKey].expires_at = clock + ttl_days
      ]_vars

\* get_summary returned absent for a summary that is stored but has expired
C20_Witness ==
    /\ got.kind = "summary"
    /\ ~got.hit
    /\ SummaryKey \in DOMAIN mem[got.by].summary
    /\ clock > mem[got.by].summary[SummaryKey].expires_at

\* C21: the summary cache key is the same for the same date, commit-hash
\* list, diff hash and config hash, and differs whenever one of them differs
\* (a reordered list, an added commit or a replaced commit at any position
\* included), so that get_summary misses after any such change.
C21_SummaryKey ==
    keyOut # <<>> => ((keyOut[1] = keyOut[2]) <=> (keyArgs[1] = keyArgs[2]))

\* C22: constructing the cache on a directory whose table file holds invalid
\* JSON or a document of another schema version raises no error and gives
\* an empty table for that file, and set and get on that cache then work as
\* usual: the constructor always ends ready, with an empty table for every
\* file it could not use; a get_summary after a set_summary of the instance
\* returns what was stored; and a completed persist leaves both files whole
\* and of the current version, the plan file holding the plan table of the
\* instance.
C22_ColdOnCorruption ==
    [][\A p \in Procs :
         /\ (cpc[p].at = "none" /\ cpc'[p] # cpc[p]) =>
               /\ cpc'[p].at = "ready"
               /\ \A path \in ColdPaths : mem'[p][path] = << >>
         /\ (got'.kind = "summary" /\ got'.by = p /\ mine'[p] # NoEntry
                 /\ clock' <= mine'[p].expires_at) =>
               (got'.hit /\ got'.entry = mine'[p])
         /\ (cpc[p].at = "replace_plan" /\ cpc'[p].at = "ready") =>
               /\ files'.plan = Whole(mem'[p].plan)
               /\ files'.summary.whole /\ files'.summary.version = CACHE_VERSION
      ]_vars

\* an instance constructed on a summary file it could not use has stored a
\* summary and is served it back
C22_Witness ==
    /\ got.kind = "summary"
    /\ got.hit
    /\ "summary" \in cold[got.by]
    /\ got.entry = mine[got.by]

\* the commits of the request of a call: the fetched log, filtered by date
RequestKeys(log, r) ==
    IF r.start_date # NoDate \/ r.end_date # NoDate
    THEN SelectSeq(DateKeys(log), LAMBDA d : include_date(d, r.start_date, r.end_date))
    ELSE DateKeys(log)

RequestCommits(log, r) == AllCommits(RequestKeys(log, r), log)

\* the plan cache key of the request of a call
RequestKey(log, r) ==
    LET flat == RequestCommits(log, r)
    IN  PlanKeyOf(r.start_date, r.end_date, IF r.combine THEN SortByTime(flat) ELSE flat)

\* every item of a cached plan finds as many of its hashes among the commits
\* as its commit count
CountsMatch(cached_data, flat) ==
    \A i \in 1..Len(cached_data.items) :
        Cardinality(Range(cached_data.items[i].commit_hashes) \cap Range(flat))
            = cached_data.items[i].commit_count

\* C23: when the plan cache holds an entry for the request and every cached
\* item's commit count equals the number of its commit hashes found among the
\* freshly fetched commits, prepare_squash_plan returns the reconstructed plan
\* without calling the generation backend (the items carry the cached
\* summaries and the cache is left as it was); when the count of an item
\* does not match, the cached plan is discarded and the plan is generated
\* anew.
C23_CachedPlan ==
    [][(nPrepare' = nPrepare + 1 /\ RequestCommits(fetched', req') # <<>>
            /\ RequestKey(fetched', req') \in DOMAIN planCache) =>
          LET cached_data == planCache[RequestKey(fetched', req')]
          IN  IF CountsMatch(cached_data, RequestCommits(fetched', req'))
              THEN /\ planErr' = "none"
                   /\ planSrc' = "cache"
                   /\ planCache' = planCache
                   /\ Len(plan'.items) = Len(cached_data.items)
                   /\ \A i \in 1..Len(plan'.items) :
                         /\ plan'.items[i].summary = cached_data.items[i].summary
                         /\ plan'.items[i].commits = cached_data.items[i].commit_hashes
              ELSE /\ planSrc' # "cache"
                   /\ planErr' = "none" =>
                         /\ planSrc' = "regenerated"
                         /\ planCache'[RequestKey(fetched', req')] = SerializePlan(plan')
                         /\ CountsMatch(SerializePlan(plan'), RequestCommits(fetched', req'))
      ]_vars

\* a cached plan was discarded because the amended tip is no longer found,
\* and the plan was generated anew
C23_Witness ==
    /\ planSrc = "regenerated"
    /\ planErr = "none"
    /\ plan.items # <<>>

\* the run ended without executing: dry run, or the confirmation declined
NotExecuted == cli.at = "exited" /\ (~cli.execute \/ cli.answer = "no")

C25_NoBackup ==
    (cli.no_backup /\ nExec > 0) => refs[BackupBranch] = cli.refs[BackupBranch]

\* the properties a configuration must have
WellFormed(c) ==
    /\ c.subject_line_limit > 0 /\ c.body_line_width > 0 /\ c.total_message_limit > 0
    /\ c.subject_line_limit <= c.total_message_limit
    /\ c.max_retry_attempts \in 1..10
    /\ \A i \in 1..Len(c.branch_prefix) :
         /\ <<c.branch_prefix[i]>> \notin invalid_chars
         /\ i < Len(c.branch_prefix) => SubSeq(c.branch_prefix, i, i + 1) \notin invalid_chars
    /\ \A i \in 1..Len(c.backup_branch_prefix) :
         /\ <<c.backup_branch_prefix[i]>> \notin invalid_chars
         /\ i < Len(c.backup_branch_prefix) =>
               SubSeq(c.backup_branch_prefix, i, i + 1) \notin invalid_chars

\* C26: every GitSquashConfig produced by the constructor or by
\* with_overrides has positive subject_line_limit, body_line_width and
\* total_message_limit, subject_line_limit <= total_message_limit,
\* max_retry_attempts between 1 and 10 and branch prefixes free of
\* path-unsafe characters; a construction or override that violates one of
\* these fails with an error; and with_overrides leaves the receiver as it
\* was.
C26_ConfigValid ==
    cfg.kind # "none" =>
        /\ cfg.err = "none" => (cfg.out = cfg.fields /\ WellFormed(cfg.out))
        /\ ~WellFormed(cfg.fields) => (cfg.err # "none" /\ cfg.out = NoConfig)
        /\ cfg.kind = "override" => cfg.after = cfg.self

\* an override of a valid configuration was refused and the receiver is as
\* it was
C26_Witness ==
    /\ cfg.kind = "override"
    /\ cfg.err = "ValueError"
    /\ WellFormed(cfg.self)
    /\ cfg.after = cfg.self
\* the lines of a formatted message
OutLines(text) == split_on(text, "\n")

\* C27: for every raw message and every valid configuration,
\* format_commit_message returns a message whose subject line is no longer
\* than subject_line_limit and whose body lines are no longer than
\* body_line_width.
C27_LineLimits ==
    fmt.done =>
        LET out == OutLines(fmt.once)
        IN  /\ Len(out[1]) <= fmt.config.subject_line_limit
            /\ \A i \in 2..Len(out) : Len(out[i]) <= fmt.config.body_line_width

\* the subject of a raw message is capitalized, has no trailing period and is
\* within subject_line_limit
CleanSubject(raw, config) ==
    LET subject == split_on(raw, "\n")[1]
    IN  /\ subject # <<>>
        /\ strip(subject) = subject
        /\ upper(subject[1]) = subject[1]
        /\ subject[Len(subject)] # "."
        /\ Len(subject) <= config.subject_line_limit

\* C28: format_commit_message is idempotent on every raw message whose
\* subject is already capitalized, free of a trailing period and within
\* subject_line_limit, whatever its body.
C28_Idempotent ==
    (fmt.done /\ CleanSubject(fmt.raw, fmt.config)) => fmt.twice = fmt.once

\* C29: for one batch the backend is called with the attempt numbers 1, 2, ...
\* in increasing order, at most max_retry_attempts times, with as
\* previous_summary the message the preceding attempt returned (none at
\* attempt 1), and it is not called again after the first message that fits
\* total_message_limit.
C29_RetryOrder ==
    [][retry'.calls # retry.calls =>
         LET n == Len(retry.calls)
             call == retry'.calls[n + 1]
         IN  /\ retry'.calls = Append(retry.calls, call)
             /\ call.attempt = n + 1
             /\ call.attempt <= retry.config.max_retry_attempts
             /\ call.previous_summary =
                    (IF n = 0 THEN None ELSE Some(retry.calls[n].answer))
             /\ \A i \in 1..n :
                    Len(retry.calls[i].answer) > retry.config.total_message_limit]_vars

\* the loop returned after three calls, the third being the first that fitted
C29_Witness ==
    /\ retry.at = "returned"
    /\ Len(retry.calls) = 3
    /\ retry.calls[3].previous_summary = Some(retry.calls[2].answer)
    /\ Len(retry.calls[3].answer) <= retry.config.total_message_limit

\* the attempts whose answer fits total_message_limit
Fitting == { i \in 1..Len(retry.calls) :
               Len(retry.calls[i].answer) <= retry.config.total_message_limit }

\* C30: _generate_summary_with_retry returns the first backend message that
\* fits total_message_limit; when no attempt fits it returns the message of
\* the last attempt as the backend gave it.
C30_RetryReturn ==
    retry.at = "returned" =>
        IF Fitting # {}
        THEN retry.ret = Some(retry.calls[CHOOSE i \in Fitting : \A j \in Fitting : i <= j].answer)
        ELSE /\ Len(retry.calls) = retry.config.max_retry_attempts
             /\ retry.ret = Some(retry.calls[Len(retry.calls)].answer)

\* every attempt was too long and the last message was returned
C30_Witness ==
    /\ retry.at = "returned"
    /\ Fitting = {}
    /\ Len(retry.calls) > 1
    /\ retry.ret = Some(retry.calls[Len(retry.calls)].answer)
    /\ Len(retry.ret[1]) > retry.config.total_message_limit

\* C31: a generated summary is written to the summary cache only when it was
\* produced at attempt 1 and fits total_message_limit; an over-length summary
\* and a fallback summary are never cached, and the cache is never read on
\* attempts after the first.
C31_CacheOnlyFitting ==
    /\ \A i \in 1..Len(retry.writes) :
         /\ retry.writes[i].attempt = 1
         /\ retry.writes[i].source = "backend"
         /\ Len(retry.writes[i].summary) <= retry.config.total_message_limit
    /\ \A i \in 1..Len(retry.calls) :
         retry.calls[i].source = "cache" => retry.calls[i].attempt = 1

\* C32: when a date's batch is split, the items emitted for that date carry
\* the part numbers 1, 2, ..., k in emission order, with no gap and no
\* repeat; when the batch is not split its single item has no part number.
\* The planner either raises one of its two errors or returns such a plan.
C32_PartNumbers ==
    (nPrepare > 0 /\ planErr \notin DomainErrors) =>
        /\ planErr = "none"
        /\ \A i \in 1..Len(plan.items) :
             LET same == { j \in 1..Len(plan.items) : plan.items[j].date = plan.items[i].date }
             IN  plan.items[i].part =
                    IF Cardinality(same) = 1 THEN NoPart
                    ELSE Cardinality({ j \in same : j <= i })

\* C33: entered past the recursion depth bound of 10, _process_commits makes
\* no backend call and no further recursive call: whatever the backend would
\* answer, its one outcome is a single item that holds the whole batch, with
\* the message 'Update <date> (<n> commits)'.
C33_DepthBound ==
    (proc.called /\ proc.depth > 10) =>
        /\ Cardinality(proc.outs) = 1
        /\ proc.out.err = "none"
        /\ Len(proc.out.items) = 1
        /\ proc.out.items[1].commits = proc.commits
        /\ proc.out.items[1].date = proc.date
        /\ proc.out.items[1].summary =
               <<"Update " \o DateStr(proc.date.lo) \o " (" \o NumStr(Len(proc.commits))
                   \o " commits)">>

\* a batch of two commits or more was processed at depth 11
C33_Witness ==
    /\ proc.called
    /\ proc.depth = 11
    /\ Len(proc.commits) >= 2
    /\ proc.out.err = "none"

\* C38: the hard-truncated message built for an over-budget summary is never
\* longer than total_message_limit whenever its subject line is at most
\* total_message_limit - 21 characters long.
C38_TruncatedFits ==
    (trunc.called /\ Len(trunc.summary[1]) <= total_message_limit - 21) =>
        MsgLen(trunc.out) <= total_message_limit

\* an execute_squash_plan call is between its first and its last step
Running == pc \in {"backed_up", "branched", "reset", "loop"}

\* C34: execute_squash_plan invalidates cached plans only after the commits
\* of all plan items have been created and the branch advanced to the last
\* of them; a step that aborts the execution removes no cache entry.
C34_InvalidateLast ==
    [][(Running /\ planCache' # planCache) =>
           /\ Len(created) = Len(xplan.items)
           /\ \A i \in 1..Len(created) : created[i] \in DOMAIN commits
           /\ refs[xtarget] = created[Len(created)]
           /\ pc' = "done"]_vars

\* an execution of two items or more ended and its plan is no longer cached
C34_Witness ==
    /\ pc = "done"
    /\ Len(xplan.items) >= 2
    /\ Len(created) = Len(xplan.items)
    /\ refs[xtarget] = created[Len(created)]
    /\ \A k \in DOMAIN planCache :
         \A i \in 1..Len(planCache[k].items) :
             Range(planCache[k].items[i].commit_hashes) \cap CommitsInPlan(xplan) = {}

\* C36: when execute_squash_plan aborts while applying plan item k, the
\* target branch points at the new commit of item k-1, or at the base tip
\* when no item has been applied, and the commits already created are still
\* in the object store.
C36_AbortLeavesTarget ==
    [][(pc = "loop" /\ pc' = "aborted") =>
           /\ refs'[xtarget] = IF created = <<>> THEN refs[BaseBranch]
                               ELSE created[Len(created)]
           /\ \A i \in 1..Len(created) : created[i] \in DOMAIN commits']_vars

\* C35: if the base branch cannot be resolved, or the lookup of the first
\* source commit's parent raises, execute_squash_plan aborts the whole
\* execution and creates no commit.
C35_LookupAborts ==
    fault # "none" => (pc = "aborted" /\ created = <<>>)

\* C39: execute_squash_plan never moves the base branch or the branch that
\* was checked out when it started and never alters a commit of the object
\* store; the only refs it creates or moves are the backup branch and the
\* target branch, and a target branch that exists when the call starts is
\* not moved.
C39_ExecFrame ==
    [][(Running \/ nExec' # nExec) =>
           /\ \A b \in Branches \ {BackupBranch, xtarget'} : refs'[b] = refs[b]
           /\ (pc \in {"idle", "done", "backed_up"} /\ refs[xtarget'] # NoCommit) =>
                  refs'[xtarget'] = refs[xtarget']
           /\ \A h \in DOMAIN commits : commits'[h] = commits[h]]_vars

\* an execution ended: the branch it started on and the base are where they
\* were, the target branch holds the new commits
C39_Witness ==
    /\ pc = "done"
    /\ created # <<>>
    /\ refs[xtarget] = created[Len(created)]
    /\ refs[BaseBranch] = base_head
    /\ refs[WorkBranch] = startHead
    /\ refs[BackupBranch] = startHead

\* C37: with several invocations on one cache directory, an entry of the
\* summary file or of the plan file stays on disk until it expires or is
\* invalidated: no step of an invocation that is not invalidating removes an
\* unexpired entry that shares no hash with an invalidated plan.
C37_NoLostEntry ==
    [][(\A p \in Procs : cpc[p].op # "invalidate_plan" /\ cpc'[p].op # "invalidate_plan") =>
           /\ \A k \in DOMAIN files.summary.entries :
                  clock' <= files.summary.entries[k].expires_at =>
                      k \in DOMAIN files'.summary.entries
           /\ \A k \in DOMAIN files.plan.entries :
                  (/\ clock' <= files.plan.entries[k].expires_at
                   /\ EntryHashes(files.plan.entries[k]) \cap (squashed \cup squashed') = {}) =>
                      k \in DOMAIN files'.plan.entries]_vars
====
